---- MODULE Spec2Model ----
(***************************************************************************)
(* Model of contui's application loop (src/src/app.rs) with the state it   *)
(* owns (src/src/state/app_state.rs): the log and stats fetch              *)
(* coordinators, the exec session manager and the periodic checks.         *)
(*                                                                         *)
(* Conventions.  Option<T> is a sequence: <<>> is None, <<x>> is Some(x).  *)
(* A receiver field (Option<mpsc::Receiver<..>>) holds the id of the job   *)
(* whose channel it receives from, 0 for None.  Every handler of App is an *)
(* operator from a state record (all fields of App, of AppState and of the *)
(* workers) to a state record, so that a tick is the composition of its    *)
(* steps in the order of run_event_loop.  Container names are display-only *)
(* and left out.                                                           *)
(***************************************************************************)
EXTENDS Integers, Sequences, FiniteSets, Bags, TLC

VARIABLES
    docker_client,       \* App.docker_client is Some
    log_fetch_rx,        \* App.log_fetch_rx: job id, 0 = None
    last_log_fetch,      \* App.last_log_fetch is Some
    stats_fetch_rx,      \* App.stats_fetch_rx: job id, 0 = None
    last_stats_fetch,    \* App.last_stats_fetch is Some
    exec_runtime,        \* App.exec_runtime: Option<ExecRuntime>
    exec_start_rx,       \* App.exec_start_rx: job id, 0 = None
    exec_start_pending,  \* App.exec_start_pending: Option<ExecStartPending>
    last_terminal_size,  \* App.last_terminal_size: Option<(u16, u16)>
    docker_connected,    \* AppState.docker_connected
    containers,          \* AppState.containers (ids)
    container_list_selected, \* AppState.container_list_selected (0-based)
    selected_container,  \* AppState.selected_container: Option<id>
    terminal_size,       \* AppState.terminal_size
    notifications,       \* AppState.notifications
    log_view,            \* AppState.log_view: Option<LogViewState>
    stats_view,          \* AppState.stats_view: Option<StatsViewState>
    exec_view,           \* AppState.exec_view: Option<ExecViewState>
    current_tab,         \* AppState.current_tab
    show_help,           \* AppState.show_help
    confirm_dialog,      \* AppState.confirm_dialog: Option<ConfirmAction>
    jobs,                \* the result channels App holds and their workers
    orphans,             \* the workers whose receiver was dropped (a bag)
    awaiting,            \* remote call the main loop is suspended in, "none" if none
    should_quit,         \* the loop has left run_event_loop
    overflow,            \* a step went beyond MaxJobs or MaxOrphans
    call,                \* a call of a pure function: name, arguments, return
    last                 \* the last operation of the main loop (history)

vars == <<docker_client, log_fetch_rx, last_log_fetch, stats_fetch_rx,
          last_stats_fetch, exec_runtime, exec_start_rx, exec_start_pending,
          last_terminal_size, docker_connected, containers,
          container_list_selected, selected_container, terminal_size,
          notifications, log_view, stats_view, exec_view, current_tab,
          show_help, confirm_dialog, jobs, orphans,
          awaiting, should_quit, overflow, call, last>>

(***************************************************************************)
(* Bounds of the model.                                                    *)
(***************************************************************************)
\* job ids 1..MaxJobs: jobs running or holding an unread result at one time
MaxJobs == 3
\* input events are taken only while fewer notifications than this are queued
MaxNotifLoad == 0
\* workers running on at one time after their receiver was dropped
MaxOrphans == 1
\* a log fetch returns 0..MaxFetch entries
MaxFetch == 1
\* capacity of the log buffer of a log view (max_lines: 1000, scaled down)
MaxLines == 2
\* output items the forwarder may have put into the channel and the loop
\* has not drained yet
MaxBuffered == 2
\* chunks the output stream of one exec session yields
MaxChunks == 2
\* tokens of an entrypoint and of a cmd array
MaxArgs == 2

\* input bytes the remote pty has still to echo
MaxEcho == 3

\* calls of add_notification in the notification queue's specification
MaxAdds == 12

(***************************************************************************)
(* Program constants.                                                      *)
(***************************************************************************)
NotificationCap == 10

\* App::run_event_loop, "let tick_rate = Duration::from_millis(250)"
tick_rate == 250

\* App::run_event_loop, "self.state.clear_old_notifications(3)"
MAX_AGE_SECONDS == 3
EXEC_PANEL_HEIGHT == 10
SpinnerFrames == 4
U16 == 65536
ExecChannelCap == 64

Outcomes == {"ok", "err", "hang"}

None == <<>>
Some(x) == <<x>>
IsSome(o) == o /= <<>>
IsNone(o) == o = <<>>
Unwrap(o) == o[1]

Min(a, b) == IF a < b THEN a ELSE b
Max(a, b) == IF a > b THEN a ELSE b
Clamp(x, lo, hi) == IF x < lo THEN lo ELSE IF x > hi THEN hi ELSE x
SatSub(a, b) == IF a > b THEN a - b ELSE 0

FreeJob == [kind |-> "free", target |-> "", phase |-> "free",
            size |-> <<0, 0>>, result |-> <<>>, skipped |-> FALSE]

(***************************************************************************)
(* The state record the handlers work on.                                  *)
(***************************************************************************)
S == [docker_client |-> docker_client, log_fetch_rx |-> log_fetch_rx,
      last_log_fetch |-> last_log_fetch, stats_fetch_rx |-> stats_fetch_rx,
      last_stats_fetch |-> last_stats_fetch, exec_runtime |-> exec_runtime,
      exec_start_rx |-> exec_start_rx,
      exec_start_pending |-> exec_start_pending,
      last_terminal_size |-> last_terminal_size,
      docker_connected |-> docker_connected, containers |-> containers,
      container_list_selected |-> container_list_selected,
      selected_container |-> selected_container,
      terminal_size |-> terminal_size, notifications |-> notifications,
      log_view |-> log_view, stats_view |-> stats_view,
      exec_view |-> exec_view, current_tab |-> current_tab,
      show_help |-> show_help, confirm_dialog |-> confirm_dialog,
      jobs |-> jobs, orphans |-> orphans,
      awaiting |-> awaiting,
      should_quit |-> should_quit, overflow |-> overflow]

Commit(r) ==
    /\ docker_client' = r.docker_client
    /\ log_fetch_rx' = r.log_fetch_rx
    /\ last_log_fetch' = r.last_log_fetch
    /\ stats_fetch_rx' = r.stats_fetch_rx
    /\ last_stats_fetch' = r.last_stats_fetch
    /\ exec_runtime' = r.exec_runtime
    /\ exec_start_rx' = r.exec_start_rx
    /\ exec_start_pending' = r.exec_start_pending
    /\ last_terminal_size' = r.last_terminal_size
    /\ docker_connected' = r.docker_connected
    /\ containers' = r.containers
    /\ container_list_selected' = r.container_list_selected
    /\ selected_container' = r.selected_container
    /\ terminal_size' = r.terminal_size
    /\ notifications' = r.notifications
    /\ log_view' = r.log_view
    /\ stats_view' = r.stats_view
    /\ exec_view' = r.exec_view
    /\ current_tab' = r.current_tab
    /\ show_help' = r.show_help
    /\ confirm_dialog' = r.confirm_dialog
    /\ jobs' = r.jobs
    /\ orphans' = r.orphans
    /\ awaiting' = r.awaiting
    /\ should_quit' = r.should_quit
    /\ overflow' = r.overflow

\* statement sequencing: the state after running the statement f in the
\* state s
Then(s, f(_)) == CHOOSE r \in {f(v) : v \in {s}} : TRUE

(***************************************************************************)
(* AppState (src/src/state/app_state.rs).                                  *)
(***************************************************************************)
\* Notification { message, level, timestamp: Utc::now() }.  A timestamp is
\* kept as the entry's age, the milliseconds of the clock since it was taken.
Notification(message, level) ==
    [message |-> message, level |-> level, age |-> 0]

\* variant of add_notification that evicts the newest entry but one
add_notification_evict_recent(s, message, level) ==
    LET q == Append(s.notifications, Notification(message, level))
    IN  [s EXCEPT !.notifications =
            IF Len(q) > NotificationCap
            THEN SubSeq(q, 1, Len(q) - 2) \o <<q[Len(q)]>> ELSE q]

\* AppState::add_notification: push, then evict the oldest past the cap
add_notification(s, message, level) ==
    LET q == Append(s.notifications, Notification(message, level))
    IN  [s EXCEPT !.notifications =
            IF Len(q) > NotificationCap THEN Tail(q) ELSE q]

\* the clock advances by dt milliseconds: Utc::now() as the notifications
\* see it
elapse(s, dt) ==
    [s EXCEPT !.notifications =
        [i \in 1..Len(s.notifications) |->
            [s.notifications[i] EXCEPT !.age = @ + dt]]]

\* variant of clear_old_notifications that keeps an entry of exactly the
\* limit's age
clear_old_notifications_late(s, max_age_seconds) ==
    [s EXCEPT !.notifications =
        SelectSeq(s.notifications,
                  LAMBDA n : n.age <= max_age_seconds * 1000)]

\* AppState::clear_old_notifications: retain(timestamp > cutoff), the cutoff
\* max_age_seconds before now
clear_old_notifications(s, max_age_seconds) ==
    [s EXCEPT !.notifications =
        SelectSeq(s.notifications,
                  LAMBDA n : n.age < max_age_seconds * 1000)]

\* AppState::update_containers
update_containers(s, list) ==
    IF list /= <<>>
    THEN LET sel == IF s.container_list_selected >= Len(list)
                    THEN Len(list) - 1 ELSE s.container_list_selected
         IN  [s EXCEPT !.containers = list,
                       !.container_list_selected = sel,
                       !.selected_container = Some(list[sel + 1])]
    ELSE [s EXCEPT !.containers = list,
                   !.container_list_selected = 0,
                   !.selected_container = None]

\* AppState::next_container
next_container(s) ==
    IF s.containers = <<>> THEN s
    ELSE LET sel == (s.container_list_selected + 1) % Len(s.containers)
         IN  [s EXCEPT !.container_list_selected = sel,
                       !.selected_container = Some(s.containers[sel + 1])]

\* variant of previous_container that stays on the first entry
previous_container_stop(s) ==
    IF s.containers = <<>> THEN s
    ELSE LET sel == IF s.container_list_selected = 0
                    THEN 0
                    ELSE s.container_list_selected - 1
         IN  [s EXCEPT !.container_list_selected = sel,
                       !.selected_container = Some(s.containers[sel + 1])]

\* AppState::previous_container
previous_container(s) ==
    IF s.containers = <<>> THEN s
    ELSE LET sel == IF s.container_list_selected = 0
                    THEN Len(s.containers) - 1
                    ELSE s.container_list_selected - 1
         IN  [s EXCEPT !.container_list_selected = sel,
                       !.selected_container = Some(s.containers[sel + 1])]

\* AppState::open_log_view
open_log_view(s, id) ==
    [s EXCEPT !.log_view = Some([container_id |-> id, logs |-> <<>>,
                                 scroll_offset |-> 0, follow |-> TRUE,
                                 max_lines |-> MaxLines,
                                 search_pattern |-> None,
                                 search_matches |-> <<>>,
                                 current_match |-> None])]

\* AppState::close_log_view
close_log_view(s) == [s EXCEPT !.log_view = None]

\* variant of add_log_entry that trims a buffer over its cap at the newest
\* end
add_log_entry_drop_new(s, entry) ==
    IF IsNone(s.log_view) THEN s
    ELSE LET lv == Unwrap(s.log_view)
             pushed == Append(lv.logs, entry)
             over == Len(pushed) > lv.max_lines
             logs == IF over THEN SubSeq(pushed, 1, lv.max_lines) ELSE pushed
             off1 == IF over /\ lv.scroll_offset > 0
                     THEN lv.scroll_offset - 1 ELSE lv.scroll_offset
             off2 == IF lv.follow THEN SatSub(Len(logs), 1) ELSE off1
         IN  [s EXCEPT !.log_view = Some([lv EXCEPT !.logs = logs,
                                                    !.scroll_offset = off2])]

\* AppState::add_log_entry
add_log_entry(s, entry) ==
    IF IsNone(s.log_view) THEN s
    ELSE LET lv == Unwrap(s.log_view)
             pushed == Append(lv.logs, entry)
             over == Len(pushed) > lv.max_lines
             logs == IF over THEN Tail(pushed) ELSE pushed
             off1 == IF over /\ lv.scroll_offset > 0
                     THEN lv.scroll_offset - 1 ELSE lv.scroll_offset
             off2 == IF lv.follow THEN SatSub(Len(logs), 1) ELSE off1
         IN  [s EXCEPT !.log_view = Some([lv EXCEPT !.logs = logs,
                                                    !.scroll_offset = off2])]

\* AppState::toggle_log_follow
toggle_log_follow(s) ==
    IF IsNone(s.log_view) THEN s
    ELSE LET lv == Unwrap(s.log_view)
         IN  [s EXCEPT !.log_view = Some([lv EXCEPT
                 !.follow = ~lv.follow,
                 !.scroll_offset = IF ~lv.follow
                                   THEN SatSub(Len(lv.logs), 1)
                                   ELSE lv.scroll_offset])]

\* entry.message.to_lowercase().contains(&pattern_lower): the message of a
\* log line names the container it was read from, and the patterns searched
\* for are container names
message_contains(entry, pattern) == entry[1] = pattern

\* AppState::set_log_search; search_matches holds the 0-based indices of the
\* matching entries, current_match a 0-based index into it
set_log_search(s, pattern) ==
    IF IsNone(s.log_view) THEN s
    ELSE LET lv == Unwrap(s.log_view)
             idx == SelectSeq([i \in 1..Len(lv.logs) |-> i - 1],
                              LAMBDA i : message_contains(lv.logs[i + 1],
                                                          pattern))
         IN  IF pattern = ""
             THEN [s EXCEPT !.log_view = Some([lv EXCEPT
                      !.search_pattern = None,
                      !.search_matches = <<>>,
                      !.current_match = None])]
             ELSE [s EXCEPT !.log_view = Some([lv EXCEPT
                      !.search_pattern = Some(pattern),
                      !.search_matches = idx,
                      !.current_match = IF idx = <<>> THEN None ELSE Some(0),
                      !.scroll_offset = IF idx = <<>> THEN lv.scroll_offset
                                        ELSE idx[1]])]

\* AppState::clear_log_search
clear_log_search(s) ==
    IF IsNone(s.log_view) THEN s
    ELSE [s EXCEPT !.log_view = Some([Unwrap(s.log_view) EXCEPT
             !.search_pattern = None,
             !.search_matches = <<>>,
             !.current_match = None])]

\* AppState::next_search_match
next_search_match(s) ==
    IF IsNone(s.log_view) THEN s
    ELSE LET lv == Unwrap(s.log_view)
             next == (Unwrap(lv.current_match) + 1) % Len(lv.search_matches)
         IN  IF IsNone(lv.current_match) THEN s
             ELSE [s EXCEPT !.log_view = Some([lv EXCEPT
                      !.current_match = Some(next),
                      !.scroll_offset = lv.search_matches[next + 1]])]

\* AppState::prev_search_match
prev_search_match(s) ==
    IF IsNone(s.log_view) THEN s
    ELSE LET lv == Unwrap(s.log_view)
             current == Unwrap(lv.current_match)
             prev == IF current = 0 THEN Len(lv.search_matches) - 1
                     ELSE current - 1
         IN  IF IsNone(lv.current_match) THEN s
             ELSE [s EXCEPT !.log_view = Some([lv EXCEPT
                      !.current_match = Some(prev),
                      !.scroll_offset = lv.search_matches[prev + 1]])]

\* AppState::open_stats_view
open_stats_view(s, id) ==
    [s EXCEPT !.stats_view = Some([container_id |-> id, stats |-> None,
                                   follow |-> TRUE, error |-> FALSE])]

\* AppState::close_stats_view
close_stats_view(s) == [s EXCEPT !.stats_view = None]

\* AppState::update_stats
update_stats(s, stats) ==
    IF IsNone(s.stats_view) THEN s
    ELSE [s EXCEPT !.stats_view = Some([Unwrap(s.stats_view) EXCEPT
                                           !.stats = Some(stats),
                                           !.error = FALSE])]

\* AppState::set_stats_error
set_stats_error(s) ==
    IF IsNone(s.stats_view) THEN s
    ELSE [s EXCEPT !.stats_view = Some([Unwrap(s.stats_view) EXCEPT
                                           !.error = TRUE])]

\* AppState::toggle_stats_follow
toggle_stats_follow(s) ==
    IF IsNone(s.stats_view) THEN s
    ELSE [s EXCEPT !.stats_view = Some([Unwrap(s.stats_view) EXCEPT
                                           !.follow = ~@])]

\* AppState::open_exec_view (also closes the stats view)
open_exec_view(s, id) ==
    [s EXCEPT !.exec_view = Some([container_id |-> id, focus |-> TRUE,
                                  status |-> <<"Starting">>,
                                  screen_lines |-> <<>>]),
              !.stats_view = None]

\* AppState::close_exec_view
close_exec_view(s) == [s EXCEPT !.exec_view = None]

\* AppState::update_exec_screen (status: None)
update_exec_screen(s, lines) ==
    IF IsNone(s.exec_view) THEN s
    ELSE [s EXCEPT !.exec_view = Some([Unwrap(s.exec_view) EXCEPT
                                          !.screen_lines = lines])]

\* AppState::set_exec_status
set_exec_status(s, status) ==
    IF IsNone(s.exec_view) THEN s
    ELSE [s EXCEPT !.exec_view = Some([Unwrap(s.exec_view) EXCEPT
                                          !.status = status])]

(***************************************************************************)
(* Background jobs.  jobs holds, per id, a result channel whose receiving  *)
(* end App holds (mpsc::channel(1)) together with the worker that will     *)
(* send into it.  phase: "running" (no result yet), "ready" (the result    *)
(* sits in the channel), "closed" (the sender was dropped without a        *)
(* result), "free" (the id is unused).  orphans holds the workers that run *)
(* on after their receiver was dropped: what they send reaches nobody, so  *)
(* only their kind and target are kept.                                    *)
(***************************************************************************)
JobIds == 1..MaxJobs

\* smallest unused job id, 0 when every id is in use
AllocJob(s) ==
    IF \E j \in JobIds : s.jobs[j].phase = "free"
    THEN CHOOSE j \in JobIds :
            /\ s.jobs[j].phase = "free"
            /\ \A i \in JobIds : s.jobs[i].phase = "free" => j <= i
    ELSE 0

\* mpsc::channel(1) + thread/task spawn: a new running job whose receiver
\* App holds
spawn_job(s, j, kind, target, size) ==
    IF j = 0 THEN [s EXCEPT !.overflow = TRUE]
    ELSE [s EXCEPT !.jobs[j] = [kind |-> kind, target |-> target,
                                phase |-> "running", size |-> size,
                                result |-> <<>>, skipped |-> FALSE]]

\* dropping a Receiver: a worker that still runs is left without receiver,
\* a buffered result is lost
drop_rx(s, j) ==
    IF j = 0 THEN s
    ELSE IF s.jobs[j].phase = "running"
         THEN [s EXCEPT
                 !.jobs[j] = FreeJob,
                 !.orphans = @ (+) SetToBag({[kind |-> s.jobs[j].kind,
                                              target |-> s.jobs[j].target]}),
                 !.overflow = @ \/ BagCardinality(s.orphans) >= MaxOrphans]
         ELSE [s EXCEPT !.jobs[j] = FreeJob]

\* tx.send(result).await at the end of a worker whose receiver is held: the
\* result is put into the channel
send_result(jb, j, result) ==
    [jb EXCEPT ![j].phase = "ready", ![j].result = result]

\* the sender is dropped without a send (the worker died)
drop_tx(jb, j) == [jb EXCEPT ![j].phase = "closed"]

\* "let _ = tx.send(result).await" of a worker whose receiver was dropped:
\* the send fails, the result is discarded and the worker is gone
discard_result(s, o) == [s EXCEPT !.orphans = @ (-) SetToBag({o})]

\* DockerClient::fetch_logs.  remote: how the log stream of the remote call
\* behaves after k entries were read: "ok" (it ends), "err" (it yields an
\* error, which is debug-logged), "hang" (no item within LOG_ITEM_TIMEOUT,
\* the loop breaks).  Every path returns Ok(entries).  The call asks for
\* the last 100 lines and the container's log holds the k lines read, so the
\* entries are its lines 1..k; an entry is represented by the container it
\* was read from and the number of its line.  failed is no part of the
\* Result: it records for the properties that the remote call failed.
fetch_logs(id, remote, k) ==
    [ok |-> TRUE, entries |-> [i \in 1..k |-> <<id, i>>],
     failed |-> remote /= "ok"]

\* DockerClient::fetch_logs, one turn of the read loop that meets an error
\* item or an item that does not parse: it is debug-logged and the loop goes
\* on reading.  The loop keeps no count of such turns; skipped changes with
\* every one of them.
read_skip(jb, j) == [jb EXCEPT ![j].skipped = ~@]

\* DockerClient::fetch_stats.  remote: how the first item of the stats
\* stream arrives: "ok" gives Ok(snapshot of the container); "err" (an error
\* item or the end of the stream) and "hang" (nothing within 5 s) give Err
fetch_stats(id, remote) == [ok |-> remote = "ok", stats |-> id]

(***************************************************************************)
(* Fetch coordinators (src/src/app.rs).                                    *)
(***************************************************************************)
\* variant of cancel_log_fetch that keeps the receiver of the fetch in flight
cancel_log_fetch_keep(s) == s

\* App::start_log_streaming, "Cancel any existing pending fetch"
cancel_log_fetch(s) ==
    IF s.log_fetch_rx /= 0
    THEN [drop_rx(s, s.log_fetch_rx) EXCEPT !.log_fetch_rx = 0]
    ELSE s

\* App::start_log_streaming
start_log_streaming(s, id) ==
    IF s.docker_client
    THEN LET s1 == cancel_log_fetch(s)
             s2 == add_notification(s1, "Fetching logs...", "Info")
             j == AllocJob(s2)
         IN  [spawn_job(s2, j, "logs", id, <<0, 0>>) EXCEPT !.log_fetch_rx = j]
    ELSE add_notification(s, "Not connected to Docker", "Error")

RECURSIVE add_log_entries(_, _)
\* App::check_log_fetch, "for entry in entries"
add_log_entries(s, entries) ==
    IF entries = <<>> THEN s
    ELSE add_log_entries(add_log_entry(s, Head(entries)), Tail(entries))

\* App::check_log_fetch
check_log_fetch(s) ==
    IF s.log_fetch_rx = 0 THEN s
    ELSE LET j == s.log_fetch_rx
             job == s.jobs[j]
             cleared == [drop_rx(s, j) EXCEPT !.log_fetch_rx = 0]
         IN  CASE job.phase = "ready" /\ job.result.ok ->
                    add_log_entries(cleared, job.result.entries)
               [] job.phase = "ready" /\ ~job.result.ok ->
                    add_notification(cleared, "Failed to fetch logs", "Error")
               [] job.phase = "closed" -> cleared
               [] OTHER -> s

\* App::start_stats_streaming, "Cancel any existing pending fetch"
cancel_stats_fetch(s) ==
    IF s.stats_fetch_rx /= 0
    THEN [drop_rx(s, s.stats_fetch_rx) EXCEPT !.stats_fetch_rx = 0]
    ELSE s

\* App::start_stats_streaming
start_stats_streaming(s, id) ==
    IF s.docker_client
    THEN LET s1 == cancel_stats_fetch(s)
             j == AllocJob(s1)
         IN  [spawn_job(s1, j, "stats", id, <<0, 0>>)
                EXCEPT !.stats_fetch_rx = j]
    ELSE add_notification(s, "Not connected to Docker", "Error")

\* App::check_stats_fetch
check_stats_fetch(s) ==
    IF s.stats_fetch_rx = 0 THEN s
    ELSE LET j == s.stats_fetch_rx
             job == s.jobs[j]
             cleared == [drop_rx(s, j) EXCEPT !.stats_fetch_rx = 0]
         IN  CASE job.phase = "ready" /\ job.result.ok ->
                    update_stats(cleared, job.result.stats)
               [] job.phase = "ready" /\ ~job.result.ok ->
                    add_notification(set_stats_error(cleared),
                                     "Failed to fetch stats", "Error")
               [] job.phase = "closed" -> cleared
               [] OTHER -> s

\* App::handle_ui_action, UiAction::ShowContainerLogs
show_container_logs(s, id) ==
    LET needs_open == IF IsSome(s.log_view)
                      THEN Unwrap(s.log_view).container_id /= id
                      ELSE TRUE
        s1 == IF needs_open THEN open_log_view(s, id)
              ELSE [s EXCEPT !.log_view = Some([Unwrap(s.log_view) EXCEPT
                        !.logs = <<>>, !.scroll_offset = 0, !.follow = TRUE])]
        s2 == add_notification(s1, "Loading logs...", "Info")
    IN  [start_log_streaming(s2, id) EXCEPT !.last_log_fetch = TRUE]

\* App::handle_ui_action, UiAction::ShowContainerStats
show_container_stats(s, id) ==
    LET should_close == IF IsSome(s.stats_view)
                        THEN Unwrap(s.stats_view).container_id = id
                        ELSE FALSE
    IN  IF should_close THEN close_stats_view(s)
        ELSE LET s1 == open_stats_view(s, id)
                 s2 == add_notification(s1, "Loading stats...", "Info")
             IN  [start_stats_streaming(s2, id)
                    EXCEPT !.last_stats_fetch = TRUE]

\* variant of log_follow that does not look at the fetch in flight
log_follow_always(s, due) ==
    IF /\ IsSome(s.log_view)
       /\ Unwrap(s.log_view).follow
       /\ (~s.last_log_fetch \/ due)
    THEN [start_log_streaming(s, Unwrap(s.log_view).container_id)
            EXCEPT !.last_log_fetch = TRUE]
    ELSE s

\* App::run_event_loop, "Auto-refresh logs when in follow mode"; due: 2 s
\* have passed since last_log_fetch
log_follow(s, due) ==
    IF /\ IsSome(s.log_view)
       /\ Unwrap(s.log_view).follow
       /\ s.log_fetch_rx = 0
       /\ (~s.last_log_fetch \/ due)
    THEN [start_log_streaming(s, Unwrap(s.log_view).container_id)
            EXCEPT !.last_log_fetch = TRUE]
    ELSE s

\* variant of stats_follow that never switches to the selected container
stats_follow_same(s, due) ==
    IF IsSome(s.stats_view) /\ IsSome(s.selected_container)
    THEN IF /\ Unwrap(s.stats_view).follow
            /\ s.stats_fetch_rx = 0
            /\ (~s.last_stats_fetch \/ due)
         THEN [start_stats_streaming(s, Unwrap(s.stats_view).container_id)
                 EXCEPT !.last_stats_fetch = TRUE]
         ELSE s
    ELSE s

\* App::run_event_loop, "Auto-refresh stats when in follow mode"; due: 1 s
\* has passed since last_stats_fetch
stats_follow(s, due) ==
    IF IsSome(s.stats_view) /\ IsSome(s.selected_container)
    THEN LET stats_id == Unwrap(s.stats_view).container_id
             selected_id == Unwrap(s.selected_container)
         IN  IF stats_id /= selected_id
             THEN [start_stats_streaming(open_stats_view(s, selected_id),
                                         selected_id)
                     EXCEPT !.last_stats_fetch = TRUE]
             ELSE IF /\ Unwrap(s.stats_view).follow
                     /\ s.stats_fetch_rx = 0
                     /\ (~s.last_stats_fetch \/ due)
                  THEN [start_stats_streaming(s, stats_id)
                          EXCEPT !.last_stats_fetch = TRUE]
                  ELSE s
    ELSE s

(***************************************************************************)
(* Exec session manager (src/src/app.rs).                                  *)
(***************************************************************************)
\* content_width * 60 of compute_exec_pane_size, as a mathematical integer:
\* the u16 product overflows when it is U16 or more
list_width_product(term_width) ==
    SatSub(term_width, Clamp(term_width \div 5, 12, 20)) * 60

\* compute_exec_pane_size (u16 arithmetic; the product wraps as in a release
\* build)
compute_exec_pane_size(term_width, term_height) ==
    LET sidebar_width == Clamp(term_width \div 5, 12, 20)
        content_width == SatSub(term_width, sidebar_width)
        list_width == (list_width_product(term_width) % U16) \div 100
        cols == Max(SatSub(list_width, 2), 1)
        rows == Max(Min(SatSub(EXEC_PANEL_HEIGHT, 2),
                        SatSub(term_height, 2)), 1)
    IN  <<cols, rows>>

\* spinner::frame
frame(index) == <<"|", "/", "-", "\\">>[(index % SpinnerFrames) + 1]

\* spinner::next_index
next_index(index) == (index + 1) % SpinnerFrames

\* format_exec_start_status
format_exec_start_status(fr) == <<"Starting", fr>>

\* vt100::Parser::new(rows, cols, 0)
parser_new(rows, cols) == [rows |-> rows, cols |-> cols, text |-> <<>>]

RECURSIVE from_utf8(_)
\* the chars (code points) that a sequence of bytes encodes in UTF-8; a byte
\* that starts no well-formed char gives U+FFFD
from_utf8(bytes) ==
    IF bytes = <<>> THEN <<>>
    ELSE LET b == bytes[1]
             n == CASE b < 128 -> 1
                    [] b \in 192..223 -> 2
                    [] b \in 224..239 -> 3
                    [] b \in 240..247 -> 4
                    [] OTHER -> 0
             ok == /\ n >= 1
                   /\ Len(bytes) >= n
                   /\ \A i \in 2..n : bytes[i] \in 128..191
             cp == CASE n = 1 -> b
                     [] n = 2 -> ((b % 32) * 64) + (bytes[2] % 64)
                     [] n = 3 -> ((b % 16) * 4096) + ((bytes[2] % 64) * 64)
                                    + (bytes[3] % 64)
                     [] OTHER -> ((b % 8) * 262144)
                                    + ((bytes[2] % 64) * 4096)
                                    + ((bytes[3] % 64) * 64)
                                    + (bytes[4] % 64)
         IN  IF ok
             THEN <<cp>> \o from_utf8(SubSeq(bytes, n + 1, Len(bytes)))
             ELSE <<65533>> \o from_utf8(Tail(bytes))

RECURSIVE printed(_)
\* the chars of a char stream that the terminal prints: control chars move
\* the cursor or do nothing, ESC [ ... up to its final byte and ESC with the
\* char behind it are control sequences
printed(chars) ==
    IF chars = <<>> THEN <<>>
    ELSE LET c == chars[1]
         IN  IF c = 27
             THEN IF Len(chars) >= 2 /\ chars[2] = 91
                  THEN LET finals == {i \in 3..Len(chars) :
                                         chars[i] \in 64..126}
                       IN  IF finals = {} THEN <<>>
                           ELSE printed(SubSeq(chars,
                                    (CHOOSE i \in finals :
                                        \A j \in finals : i <= j) + 1,
                                    Len(chars)))
                  ELSE printed(SubSeq(chars, 3, Len(chars)))
             ELSE IF c < 32 \/ c \in 127..159
             THEN printed(Tail(chars))
             ELSE <<c>> \o printed(Tail(chars))

\* variant of parser_process that takes every byte for a char
parser_process_bytewise(parser, bytes) ==
    [parser EXCEPT !.text = @ \o printed(bytes)]

\* vt100::Parser::process: the chars the bytes print are put on the screen
\* behind the text that is there.  The screen is text in the order it was
\* printed; the model's sessions print less than a row.
parser_process(parser, bytes) ==
    [parser EXCEPT !.text = @ \o printed(from_utf8(bytes))]

\* vt100::Parser::set_size
parser_set_size(parser, rows, cols) ==
    [parser EXCEPT !.rows = rows, !.cols = cols]

\* parser.screen().contents().lines()
parser_contents(parser) == parser.text

\* variant of close_running_exec that closes the view and keeps the session
close_running_exec_keep(s) == close_exec_view(s)

\* App::start_exec_for_container, a request for the running session's
\* container: close it
close_running_exec(s) == [close_exec_view(s) EXCEPT !.exec_runtime = None]

\* variant of cancel_pending_exec that keeps the result receiver
cancel_pending_exec_keep_rx(s) ==
    [close_exec_view(s) EXCEPT !.exec_start_pending = None]

\* App::start_exec_for_container, a request for the pending start's
\* container: cancel it
cancel_pending_exec(s) ==
    [drop_rx(close_exec_view(s), s.exec_start_rx)
        EXCEPT !.exec_start_pending = None, !.exec_start_rx = 0]

\* App::start_exec_for_container, the accepted request: view, pending record,
\* channel and job
begin_exec_start(s, id) ==
    LET size == compute_exec_pane_size(s.terminal_size[1], s.terminal_size[2])
        s1 == set_exec_status(open_exec_view(s, id),
                              format_exec_start_status(frame(0)))
        s2 == [s1 EXCEPT !.exec_start_pending =
                  Some([container_id |-> id, spinner_index |-> 0])]
        j == AllocJob(s2)
    IN  [spawn_job(s2, j, "exec", id, size) EXCEPT !.exec_start_rx = j]

\* variant of start_exec_for_container that does not compare container ids:
\* any request while a session runs or a start is pending ends it
start_exec_for_container_any(s, id) ==
    IF IsSome(s.exec_runtime) THEN close_running_exec(s)
    ELSE IF IsSome(s.exec_start_pending) THEN cancel_pending_exec(s)
    ELSE IF ~s.docker_client
    THEN add_notification(s, "Docker not connected", "Error")
    ELSE begin_exec_start(s, id)

\* App::start_exec_for_container
start_exec_for_container(s, id) ==
    IF IsSome(s.exec_runtime)
    THEN IF Unwrap(s.exec_runtime).container_id = id
         THEN close_running_exec(s)
         ELSE add_notification(s, "Exec already active for another container",
                               "Warning")
    ELSE IF IsSome(s.exec_start_pending)
    THEN IF Unwrap(s.exec_start_pending).container_id = id
         THEN cancel_pending_exec(s)
         ELSE add_notification(s,
                  "Exec already starting for another container", "Warning")
    ELSE IF ~s.docker_client
    THEN add_notification(s, "Docker not connected", "Error")
    ELSE begin_exec_start(s, id)

\* the job of App::start_exec_for_container (tokio::spawn): exec_defaults,
\* the running check, select_exec_command, start_exec_session.  The exec is
\* created with the size computed at request time (start_exec_session's
\* resize_exec); exec_id is the job's id.
exec_start_job(job, j, outcome) ==
    CASE outcome = "started" ->
            [started |-> TRUE, exec_id |-> j, container_id |-> job.target,
             size |-> job.size, pty_size |-> job.size, message |-> ""]
      [] outcome = "inspect_err" ->
            [started |-> FALSE, exec_id |-> 0, container_id |-> job.target,
             size |-> job.size, pty_size |-> <<0, 0>>,
             message |-> "Failed to inspect container"]
      [] outcome = "not_running" ->
            [started |-> FALSE, exec_id |-> 0, container_id |-> job.target,
             size |-> job.size, pty_size |-> <<0, 0>>,
             message |-> "Container is not running"]
      [] OTHER ->
            [started |-> FALSE, exec_id |-> 0, container_id |-> job.target,
             size |-> job.size, pty_size |-> <<0, 0>>,
             message |-> "Failed to start exec"]

ExecJobOutcomes == {"started", "inspect_err", "not_running", "start_err"}

\* App::check_exec_start, matches_pending
matches_pending(s, container_id) ==
    IF IsSome(s.exec_start_pending)
    THEN Unwrap(s.exec_start_pending).container_id = container_id
    ELSE FALSE

\* variant of take_pending that leaves the pending record in place
take_pending_keep(s) == s

\* App::check_exec_start, "self.exec_start_pending = None" once the result
\* matches the tracked request
take_pending(s) == [s EXCEPT !.exec_start_pending = None]

\* App::check_exec_start, ExecStartResult::Started for the tracked request:
\* output channel and forwarder, parser, view, notification, ExecRuntime.
\* output_rx holds the items in the channel; forwarder is the forwarder
\* task, yielded the number of chunks it has taken from the output stream,
\* pty_size the size last requested of the remote pty, echo the input bytes
\* the remote pty has still to echo.
promote_exec(s, result) ==
    LET s1 == take_pending(s)
        parser == parser_new(result.size[2], result.size[1])
        s2 == IF IsSome(s1.exec_view)
              THEN [s1 EXCEPT !.exec_view = Some([Unwrap(s1.exec_view) EXCEPT
                        !.container_id = result.container_id])]
              ELSE s1
        s3 == add_notification(set_exec_status(s2, <<"Running">>),
                               "Exec started", "Info")
    IN  [s3 EXCEPT !.exec_runtime =
            Some([exec_id |-> result.exec_id,
                  container_id |-> result.container_id,
                  parser |-> parser,
                  output_rx |-> <<>>,
                  size |-> result.size,
                  forwarder |-> "copying",
                  yielded |-> 0,
                  pty_size |-> result.pty_size,
                  echo |-> <<>>])]

\* variant of fail_exec_start that sets the status text and emits nothing
fail_exec_start_silent(s, result) ==
    set_exec_status(take_pending(s), <<"Failed", result.message>>)

\* App::check_exec_start, ExecStartResult::Failed for the tracked request
fail_exec_start(s, result) ==
    add_notification(
        set_exec_status(take_pending(s), <<"Failed", result.message>>),
        "Exec failed", "Error")

\* App::check_exec_start, Ok(None): the channel closed without a result
exec_start_closed(s) ==
    IF IsSome(s.exec_start_pending)
    THEN add_notification(
             set_exec_status([s EXCEPT !.exec_start_pending = None],
                             <<"Failed", "exec start canceled">>),
             "Exec start canceled", "Error")
    ELSE s

\* App::check_exec_start
check_exec_start(s) ==
    IF s.exec_start_rx = 0 THEN s
    ELSE LET j == s.exec_start_rx
             job == s.jobs[j]
             cleared == [drop_rx(s, j) EXCEPT !.exec_start_rx = 0]
         IN  CASE job.phase = "ready" ->
                    IF ~matches_pending(cleared, job.result.container_id)
                    THEN cleared
                    ELSE IF job.result.started
                         THEN promote_exec(cleared, job.result)
                         ELSE fail_exec_start(cleared, job.result)
               [] job.phase = "closed" -> exec_start_closed(cleared)
               [] OTHER -> s

\* variant of tick_exec_spinner that writes the status text whether or not
\* a start is pending
tick_exec_spinner_always(s) ==
    IF IsSome(s.exec_start_pending)
    THEN LET pending == Unwrap(s.exec_start_pending)
             s1 == set_exec_status(s,
                       format_exec_start_status(frame(pending.spinner_index)))
         IN  [s1 EXCEPT !.exec_start_pending =
                 Some([pending EXCEPT
                         !.spinner_index = next_index(pending.spinner_index)])]
    ELSE set_exec_status(s, format_exec_start_status(frame(0)))

\* App::tick_exec_spinner
tick_exec_spinner(s) ==
    IF IsSome(s.exec_start_pending)
    THEN LET pending == Unwrap(s.exec_start_pending)
             s1 == set_exec_status(s,
                       format_exec_start_status(frame(pending.spinner_index)))
         IN  [s1 EXCEPT !.exec_start_pending =
                 Some([pending EXCEPT
                         !.spinner_index = next_index(pending.spinner_index)])]
    ELSE s

\* enum ExecOutput { Bytes(Vec<u8>), End }
Bytes(bytes) == <<"Bytes", bytes>>

End == <<"End">>

\* the n-th chunk of the remote's own output: the digit n
chunk(n) == <<48 + n>>

\* the capacity of the output channel in the model: mpsc::channel(64), cut
\* down to MaxBuffered
ChannelCap == Min(MaxBuffered, ExecChannelCap)

\* the output channel has no free slot: a send waits
channel_full(runtime) == Len(runtime.output_rx) >= ChannelCap

\* variant of forward_chunk that drops the chunk when the channel already
\* holds an item (a try_send into a channel of one slot)
forward_chunk_lossy(runtime, bytes) ==
    IF runtime.output_rx /= <<>> THEN [runtime EXCEPT !.yielded = @ + 1]
    ELSE [runtime EXCEPT !.yielded = @ + 1,
                         !.output_rx = Append(@, Bytes(bytes))]

\* the forwarder task of App::check_exec_start: output.next() yields the
\* next chunk of the stream, bytes, and tx.send(ExecOutput::Bytes).await,
\* which returns once the channel has a free slot, puts it into the channel
forward_chunk(runtime, bytes) ==
    [runtime EXCEPT !.yielded = @ + 1,
                    !.output_rx = Append(@, Bytes(bytes))]

\* the remote pty echoes the input it has received: the bytes are the next
\* chunk of the output stream
forward_echo(runtime) ==
    forward_chunk([runtime EXCEPT !.echo = <<>>], runtime.echo)

\* variant of stream_end that gives the end item up when the channel has no
\* free slot (a try_send)
stream_end_try_send(runtime) ==
    IF channel_full(runtime) THEN [runtime EXCEPT !.forwarder = "done"]
    ELSE [runtime EXCEPT !.forwarder = "ending"]

\* the forwarder task: output.next() yields None or Err, the task goes on to
\* tx.send(ExecOutput::End).await
stream_end(runtime) == [runtime EXCEPT !.forwarder = "ending"]

\* the forwarder task: tx.send(ExecOutput::End).await returns, the end item
\* is in the channel and the task is over
send_end(runtime) ==
    [runtime EXCEPT !.output_rx = Append(@, End), !.forwarder = "done"]

RECURSIVE drain_output(_, _, _)
\* App::check_exec_output, "while let Ok(msg) = runtime.output_rx.try_recv()":
\* the parser after the batch, whether bytes were processed, whether the End
\* item was met, and what is left in the channel
drain_output(parser, items, processed) ==
    IF items = <<>>
    THEN [parser |-> parser, processed |-> processed, end |-> FALSE,
          rest |-> <<>>]
    ELSE IF Head(items) = End
         THEN [parser |-> parser, processed |-> processed, end |-> TRUE,
               rest |-> Tail(items)]
         ELSE drain_output(parser_process(parser, Head(items)[2]),
                           Tail(items), TRUE)

\* variant of end_exec that leaves the exec view open
end_exec_keep_view(s) ==
    add_notification([s EXCEPT !.exec_runtime = None], "Exec ended", "Info")

\* App::check_exec_output, "if end": teardown
end_exec(s) ==
    add_notification([close_exec_view(s) EXCEPT !.exec_runtime = None],
                     "Exec ended", "Info")

\* App::check_exec_output
check_exec_output(s) ==
    IF IsNone(s.exec_runtime) THEN s
    ELSE LET runtime == Unwrap(s.exec_runtime)
             d == drain_output(runtime.parser, runtime.output_rx, FALSE)
             s1 == [s EXCEPT !.exec_runtime =
                       Some([runtime EXCEPT !.parser = d.parser,
                                            !.output_rx = d.rest])]
             s2 == IF d.processed
                   THEN update_exec_screen(s1, parser_contents(d.parser))
                   ELSE s1
         IN  IF d.end THEN end_exec(s2) ELSE s2

\* App::resize_exec_if_needed, the number of resize_exec_session calls it
\* issues: one when the session's size differs from the viewport and a
\* client is there, none otherwise
resize_exec_calls(s) ==
    LET size == compute_exec_pane_size(s.terminal_size[1], s.terminal_size[2])
    IN  IF /\ IsSome(s.exec_runtime)
           /\ Unwrap(s.exec_runtime).size /= size
           /\ s.docker_client
        THEN 1 ELSE 0

\* variant of resize_exec_if_needed that does not record the new size in
\* the session
resize_exec_if_needed_forget(s, remote) ==
    LET size == compute_exec_pane_size(s.terminal_size[1], s.terminal_size[2])
    IN  IF IsSome(s.exec_runtime) /\ Unwrap(s.exec_runtime).size /= size
        THEN LET runtime == Unwrap(s.exec_runtime)
                 local == [runtime EXCEPT
                             !.parser = parser_set_size(@, size[2], size[1])]
             IN  IF s.docker_client
                 THEN IF remote = "hang"
                      THEN [s EXCEPT !.exec_runtime = Some(local),
                                     !.awaiting = "resize_exec_session"]
                      ELSE [s EXCEPT !.exec_runtime =
                              Some([local EXCEPT !.pty_size = size])]
                 ELSE [s EXCEPT !.exec_runtime = Some(local)]
        ELSE s

\* App::resize_exec_if_needed; remote: how resize_exec_session returns
resize_exec_if_needed(s, remote) ==
    LET size == compute_exec_pane_size(s.terminal_size[1], s.terminal_size[2])
    IN  IF IsSome(s.exec_runtime) /\ Unwrap(s.exec_runtime).size /= size
        THEN LET runtime == Unwrap(s.exec_runtime)
                 local == [runtime EXCEPT
                             !.size = size,
                             !.parser = parser_set_size(@, size[2], size[1])]
             IN  IF s.docker_client
                 THEN IF remote = "hang"
                      THEN [s EXCEPT !.exec_runtime = Some(local),
                                     !.awaiting = "resize_exec_session"]
                      ELSE [s EXCEPT !.exec_runtime =
                              Some([local EXCEPT !.pty_size = size])]
                 ELSE [s EXCEPT !.exec_runtime = Some(local)]
        ELSE s

\* App::run_event_loop, "Resize exec session if terminal size changed"
resize_check(s, remote) ==
    IF IsSome(s.exec_view) /\ s.last_terminal_size /= Some(s.terminal_size)
    THEN LET s1 == resize_exec_if_needed(s, remote)
         IN  IF s1.awaiting /= "none" THEN s1
             ELSE [s1 EXCEPT !.last_terminal_size = Some(s.terminal_size)]
    ELSE s

\* variant of write_exec_input that ends the session when the write fails
write_exec_input_ends(s, bytes, remote) ==
    IF IsSome(s.exec_runtime)
    THEN CASE remote = "err" ->
                 add_notification([close_exec_view(s) EXCEPT
                                      !.exec_runtime = None],
                                  "Exec input failed", "Error")
           [] remote = "hang" -> [s EXCEPT !.awaiting = "exec_input_write"]
           [] remote = "echo" ->
                 [s EXCEPT !.exec_runtime =
                     Some([Unwrap(s.exec_runtime) EXCEPT
                              !.echo = @ \o bytes])]
           [] OTHER -> s
    ELSE s

\* App::write_exec_input; remote: how input.write_all returns: it fails,
\* hangs, or the bytes are written, to a remote pty that echoes its input
\* ("echo") or to one that does not ("ok")
write_exec_input(s, bytes, remote) ==
    IF IsSome(s.exec_runtime)
    THEN CASE remote = "err" ->
                 add_notification(s, "Exec input failed", "Error")
           [] remote = "hang" -> [s EXCEPT !.awaiting = "exec_input_write"]
           [] remote = "echo" ->
                 [s EXCEPT !.exec_runtime =
                     Some([Unwrap(s.exec_runtime) EXCEPT
                              !.echo = @ \o bytes])]
           [] OTHER -> s
    ELSE s

(***************************************************************************)
(* Key/byte encoder (src/src/exec/input.rs).  A KeyEvent is a record: code *)
(* (the KeyCode variant), ch (the char of KeyCode::Char as its code point, *)
(* 0 for the other variants) and modifiers (a set of KeyModifiers flags).  *)
(* Bytes are the numbers 0..255.                                           *)
(***************************************************************************)
\* KeyEvent { code, modifiers, kind }
Key(code, ch, modifiers) ==
    [code |-> code, ch |-> ch, modifiers |-> modifiers, kind |-> "Press"]

\* char::to_string().into_bytes(): the UTF-8 encoding of a code point
utf8(cp) ==
    IF cp < 128 THEN <<cp>>
    ELSE IF cp < 2048 THEN <<192 + (cp \div 64), 128 + (cp % 64)>>
    ELSE IF cp < 65536
    THEN <<224 + (cp \div 4096), 128 + ((cp \div 64) % 64), 128 + (cp % 64)>>
    ELSE <<240 + (cp \div 262144), 128 + ((cp \div 4096) % 64),
           128 + ((cp \div 64) % 64), 128 + (cp % 64)>>

\* variant of encode_key_event without the reserved combination
encode_key_event_no_reserved(key) ==
    CASE key.code = "Enter" -> Some(<<13>>)
      [] key.code = "Backspace" -> Some(<<127>>)
      [] key.code = "Tab" -> Some(<<9>>)
      [] key.code = "Esc" -> Some(<<27>>)
      [] key.code = "Up" -> Some(<<27, 91, 65>>)
      [] key.code = "Down" -> Some(<<27, 91, 66>>)
      [] key.code = "Right" -> Some(<<27, 91, 67>>)
      [] key.code = "Left" -> Some(<<27, 91, 68>>)
      [] key.code = "Home" -> Some(<<27, 91, 72>>)
      [] key.code = "End" -> Some(<<27, 91, 70>>)
      [] key.code = "PageUp" -> Some(<<27, 91, 53, 126>>)
      [] key.code = "PageDown" -> Some(<<27, 91, 54, 126>>)
      [] key.code = "Delete" -> Some(<<27, 91, 51, 126>>)
      [] key.code = "Insert" -> Some(<<27, 91, 50, 126>>)
      [] key.code = "Char" ->
            IF "CONTROL" \in key.modifiers
            THEN Some(<<(key.ch % 256) % 32>>)
            ELSE Some(utf8(key.ch))
      [] OTHER -> None

\* variant of encode_key_event that sends the char of a Ctrl combination
\* unmasked
encode_key_event_unmasked(key) ==
    IF key.code = "Char" /\ key.ch = 101 /\ "CONTROL" \in key.modifiers
    THEN None
    ELSE IF key.code = "Char" /\ "CONTROL" \in key.modifiers
    THEN Some(<<key.ch % 256>>)
    ELSE encode_key_event_no_reserved(key)

\* encode_key_event: Option<Vec<u8>>.  (c as u8) & 0x1f keeps the low five
\* bits of the low byte of the code point.
encode_key_event(key) ==
    IF key.code = "Char" /\ key.ch = 101 /\ "CONTROL" \in key.modifiers
    THEN None
    ELSE CASE key.code = "Enter" -> Some(<<13>>)
           [] key.code = "Backspace" -> Some(<<127>>)
           [] key.code = "Tab" -> Some(<<9>>)
           [] key.code = "Esc" -> Some(<<27>>)
           [] key.code = "Up" -> Some(<<27, 91, 65>>)
           [] key.code = "Down" -> Some(<<27, 91, 66>>)
           [] key.code = "Right" -> Some(<<27, 91, 67>>)
           [] key.code = "Left" -> Some(<<27, 91, 68>>)
           [] key.code = "Home" -> Some(<<27, 91, 72>>)
           [] key.code = "End" -> Some(<<27, 91, 70>>)
           [] key.code = "PageUp" -> Some(<<27, 91, 53, 126>>)
           [] key.code = "PageDown" -> Some(<<27, 91, 54, 126>>)
           [] key.code = "Delete" -> Some(<<27, 91, 51, 126>>)
           [] key.code = "Insert" -> Some(<<27, 91, 50, 126>>)
           [] key.code = "Char" ->
                 IF "CONTROL" \in key.modifiers
                 THEN Some(<<(key.ch % 256) % 32>>)
                 ELSE Some(utf8(key.ch))
           [] OTHER -> None

(***************************************************************************)
(* Command selector (src/src/docker/exec.rs).  A String is the sequence of *)
(* the pieces that its '/' characters separate: "/bin/bash" is             *)
(* <<"", "bin", "bash">>, "-c" is <<"-c">>.                                *)
(***************************************************************************)
\* cmd[0].rsplit('/').next(): the piece behind the last '/'
basename(str) == str[Len(str)]

\* looks_like_shell
looks_like_shell(cmd) ==
    IF cmd = <<>> THEN FALSE
    ELSE \/ basename(cmd[1]) \in {"sh", "bash", "zsh", "ash", "dash"}
            /\ Len(cmd[1]) >= 1
         \/ \E i \in 1..Len(cmd) : cmd[i] = <<"-lc">> \/ cmd[i] = <<"-c">>

\* variant of select_exec_command that uses a shell command as it is
select_exec_command_plain(entrypoint, cmd) ==
    IF looks_like_shell(entrypoint) \/ looks_like_shell(cmd)
    THEN entrypoint \o cmd
    ELSE << <<"", "bin", "sh">>, <<"-lc">> >>

\* select_exec_command
select_exec_command(entrypoint, cmd) ==
    IF looks_like_shell(entrypoint) \/ looks_like_shell(cmd)
    THEN LET out == entrypoint \o cmd
         IN  IF out = <<>> THEN << <<"", "bin", "sh">>, <<"-lc">> >>
             ELSE IF /\ Len(out) = 1
                     /\ ~\E i \in 1..Len(out) :
                           out[i] \in {<<"-i">>, <<"-c">>, <<"-lc">>}
             THEN Append(out, <<"-i">>)
             ELSE out
    ELSE << <<"", "bin", "sh">>, <<"-lc">> >>

(***************************************************************************)
(* Synchronous remote calls of the main loop (src/src/app.rs).  A call     *)
(* returns "ok" or "err", or never returns ("hang"): the main loop then    *)
(* stays suspended in it (awaiting).                                       *)
(***************************************************************************)
\* the inputs of one App::refresh_data: how connect_docker, ping,
\* list_containers (with the list it returns) and the remaining calls
\* (list_images, list_volumes, list_networks, get_disk_usage) return.  Only
\* the calls that are reached are varied; a failure of one of the remaining
\* calls is logged (warn!) and changes nothing of the state modelled here, so
\* they either return or hang.
RefreshInputs(env) ==
    { r \in [connect : env.outs, ping : env.outs, list : env.list_outs,
             containers : env.lists \cup {<<>>},
             rest : env.outs \ {"err"}] :
        /\ r.connect /= "ok" =>
              r.ping = "ok" /\ r.list = "ok" /\ r.containers = <<>>
                            /\ r.rest = "ok"
        /\ r.ping /= "ok" =>
              r.list = "ok" /\ r.containers = <<>> /\ r.rest = "ok"
        /\ r.list /= "ok" => r.containers = <<>>
        /\ r.list = "hang" => r.rest = "ok" }

\* App::refresh_data, "Lost connection"
lost_connection(s) ==
    LET s1 == IF s.docker_connected
              THEN add_notification([s EXCEPT !.docker_connected = FALSE],
                                    "Lost connection to Docker", "Error")
              ELSE s
    IN  [s1 EXCEPT !.docker_client = FALSE]

\* App::refresh_data, "Reconnected after being disconnected"
connection_restored(s) ==
    IF ~s.docker_connected
    THEN add_notification([s EXCEPT !.docker_connected = TRUE],
                          "Docker connection restored", "Success")
    ELSE s

\* App::refresh_data, the list calls after a successful ping: a failed list
\* call is logged (warn!) and nothing else
refresh_lists(s, in) ==
    IF in.list = "hang" THEN [s EXCEPT !.awaiting = "list_containers"]
    ELSE LET s1 == IF in.list = "ok"
                   THEN update_containers(s, in.containers) ELSE s
         IN  IF in.rest = "hang" THEN [s1 EXCEPT !.awaiting = "list_images"]
             ELSE s1

\* App::refresh_data
refresh_data(s, in) ==
    IF ~s.docker_client /\ in.connect = "hang"
    THEN [s EXCEPT !.awaiting = "connect_docker"]
    ELSE IF ~s.docker_client /\ in.connect = "err"
    THEN s
    ELSE LET s1 == IF ~s.docker_client
                   THEN add_notification(
                            [s EXCEPT !.docker_client = TRUE,
                                      !.docker_connected = TRUE],
                            "Connected to Docker", "Success")
                   ELSE s
         IN  CASE in.ping = "hang" -> [s1 EXCEPT !.awaiting = "ping"]
               [] in.ping = "err" -> lost_connection(s1)
               [] OTHER -> refresh_lists(connection_restored(s1), in)

\* App::start_container; remote: how client.start_container returns
start_container(s, remote, in) ==
    IF s.docker_client
    THEN CASE remote = "hang" -> [s EXCEPT !.awaiting = "start_container"]
           [] remote = "err" ->
                 add_notification(s, "Failed to start", "Error")
           [] OTHER ->
                 refresh_data(add_notification(s, "Container started",
                                               "Success"), in)
    ELSE add_notification(s, "Docker not connected", "Error")

(***************************************************************************)
(* Key handling (src/src/ui/app.rs) and the dispatch of its action         *)
(* (App::handle_ui_action).  Chars are code points.  A UiAction is a       *)
(* record of its variant and its id ("" for the variants without one).     *)
(* The image list is no part of the modelled state: it is empty, and so is *)
(* the focus between panels (next_panel and previous_panel do nothing).    *)
(***************************************************************************)
\* Tab::all()
Tabs == <<"Containers", "Images", "Volumes", "Networks", "Compose", "System">>

UiAction(kind, id) == [kind |-> kind, id |-> id]

\* what handle_key_event leaves: UiApp.state, the returned action and
\* UiApp.should_quit
UiResult(state, action, quit) ==
    [state |-> state, action |-> action, should_quit |-> quit]

\* KeyCode::Char(c) for the char c
IsChar(key, c) == key.code = "Char" /\ key.ch = c

\* UiApp::switch_tab
switch_tab(s, tab) == [s EXCEPT !.current_tab = tab]

\* UiApp::next_tab
next_tab(s) ==
    LET idx == CHOOSE i \in 1..Len(Tabs) : Tabs[i] = s.current_tab
    IN  switch_tab(s, Tabs[(idx % Len(Tabs)) + 1])

\* UiApp::previous_tab
previous_tab(s) ==
    LET idx == CHOOSE i \in 1..Len(Tabs) : Tabs[i] = s.current_tab
    IN  switch_tab(s, Tabs[IF idx = 1 THEN Len(Tabs) ELSE idx - 1])

\* UiApp::selected_container_id: containers.get(container_list_selected)
selected_container_id(s) ==
    IF s.container_list_selected < Len(s.containers)
    THEN Some(s.containers[s.container_list_selected + 1])
    ELSE None

\* variant of handle_confirmation_key in which every key but n and Esc
\* confirms
handle_confirmation_key_any(s, key) ==
    IF IsChar(key, 110) \/ key.code = "Esc"
    THEN UiResult([s EXCEPT !.confirm_dialog = None],
                  UiAction("None", ""), FALSE)
    ELSE IF IsSome(s.confirm_dialog)
    THEN UiResult([s EXCEPT !.confirm_dialog = None],
                  Unwrap(s.confirm_dialog), FALSE)
    ELSE UiResult(s, UiAction("None", ""), FALSE)

\* UiApp::handle_confirmation_key
handle_confirmation_key(s, key) ==
    CASE IsChar(key, 121) \/ key.code = "Enter" ->
            IF IsSome(s.confirm_dialog)
            THEN UiResult([s EXCEPT !.confirm_dialog = None],
                          Unwrap(s.confirm_dialog), FALSE)
            ELSE UiResult(s, UiAction("None", ""), FALSE)
      [] IsChar(key, 110) \/ key.code = "Esc" ->
            UiResult([s EXCEPT !.confirm_dialog = None],
                     UiAction("None", ""), FALSE)
      [] OTHER -> UiResult(s, UiAction("None", ""), FALSE)

\* UiApp::handle_key_event, the actions on the highlighted container (s, r,
\* p, k, d, l on the Containers tab); cstate: the state of that container
container_key(s, key, cstate) ==
    LET sel == selected_container_id(s)
        id == Unwrap(sel)
        none == UiResult(s, UiAction("None", ""), FALSE)
        act(kind) == IF IsSome(sel)
                     THEN UiResult(s, UiAction(kind, id), FALSE) ELSE none
        ask(kind) == IF IsSome(sel)
                     THEN UiResult([s EXCEPT !.confirm_dialog =
                                       Some(UiAction(kind, id))],
                                   UiAction("None", ""), FALSE)
                     ELSE none
    IN  CASE IsChar(key, 115) ->
                act(CASE cstate = "Running" -> "StopContainer"
                      [] cstate = "Paused" -> "UnpauseContainer"
                      [] OTHER -> "StartContainer")
          [] IsChar(key, 114) -> act("RestartContainer")
          [] IsChar(key, 112) ->
                act(IF cstate = "Paused" THEN "UnpauseContainer"
                    ELSE "PauseContainer")
          [] IsChar(key, 107) -> ask("KillContainer")
          [] IsChar(key, 100) -> ask("RemoveContainer")
          [] OTHER -> act("ShowContainerLogs")

\* UiApp::handle_key_event, "Global key handlers", the arms behind the two
\* quit arms; image: the id of the highlighted image, if there is one
\* (images.get(image_list_selected))
global_key(s, key, cstate, image) ==
    LET none(state) == UiResult(state, UiAction("None", ""), FALSE)
        on_containers == s.current_tab = "Containers"
    IN  CASE key.code = "Char" /\ key.ch \in 49..54 ->
                none(switch_tab(s, Tabs[key.ch - 48]))
          [] key.code = "Right" -> none(next_tab(s))
          [] key.code = "Left" -> none(previous_tab(s))
          [] key.code \in {"Tab", "BackTab"} -> none(s)
          [] /\ on_containers
             /\ \/ key.code = "Char" /\ key.ch \in {115, 114, 112, 100, 108}
                \/ IsChar(key, 107) /\ key.modifiers = {} ->
                container_key(s, key, cstate)
          [] s.current_tab = "Images" /\ IsChar(key, 100) ->
                none(IF IsSome(image)
                     THEN [s EXCEPT !.confirm_dialog =
                             Some(UiAction("RemoveImage", Unwrap(image)))]
                     ELSE s)
          [] /\ s.current_tab = "Images"
             /\ IsChar(key, 112) ->
                none([s EXCEPT !.confirm_dialog =
                        Some(UiAction("PruneImages", ""))])
          [] s.current_tab = "Images" /\ IsChar(key, 105) ->
                IF IsSome(image)
                THEN UiResult(s, UiAction("InspectImage", Unwrap(image)),
                              FALSE)
                ELSE none(s)
          [] IsChar(key, 106) ->
                none(IF on_containers THEN next_container(s) ELSE s)
          [] IsChar(key, 107) ->
                none(IF on_containers THEN previous_container(s) ELSE s)
          [] key.code = "Up" ->
                none(CASE on_containers -> previous_container(s)
                       [] s.current_tab = "Images" -> s
                       [] OTHER -> previous_tab(s))
          [] key.code = "Down" ->
                none(CASE on_containers -> next_container(s)
                       [] s.current_tab = "Images" -> s
                       [] OTHER -> next_tab(s))
          [] (IsChar(key, 63) \/ IsChar(key, 104)) /\ key.modifiers = {} ->
                none([s EXCEPT !.show_help = ~s.show_help])
          [] OTHER -> none(s)

\* UiApp::handle_key_event
handle_key_event(s, key, cstate, image) ==
    IF key.kind /= "Press" THEN UiResult(s, UiAction("None", ""), FALSE)
    ELSE IF IsSome(s.confirm_dialog) THEN handle_confirmation_key(s, key)
    ELSE IF s.show_help /\ ~IsChar(key, 63) /\ ~IsChar(key, 104)
    THEN UiResult([s EXCEPT !.show_help = FALSE], UiAction("None", ""),
                  FALSE)
    ELSE IF IsChar(key, 113) /\ key.modifiers = {}
    THEN UiResult(s, UiAction("Quit", ""), TRUE)
    ELSE IF IsChar(key, 99) /\ key.modifiers = {"CONTROL"}
    THEN UiResult(s, UiAction("Quit", ""), TRUE)
    ELSE global_key(s, key, cstate, image)

\* App::stop_container, restart_container, pause_container,
\* unpause_container, kill_container, remove_container: like start_container
\* with their own messages
container_action(s, done, failed, remote, in) ==
    IF s.docker_client
    THEN CASE remote = "hang" -> [s EXCEPT !.awaiting = "container_action"]
           [] remote = "err" -> add_notification(s, failed, "Error")
           [] OTHER -> refresh_data(add_notification(s, done, "Success"), in)
    ELSE add_notification(s, "Docker not connected", "Error")

\* App::prune_images: nothing without a client
prune_images(s, remote, in) ==
    IF s.docker_client
    THEN CASE remote = "hang" -> [s EXCEPT !.awaiting = "prune_images"]
           [] remote = "err" ->
                 add_notification(s, "Failed to prune images", "Error")
           [] OTHER ->
                 refresh_data(add_notification(s, "Pruned images",
                                               "Success"), in)
    ELSE s

\* App::remove_image: nothing without a client
remove_image(s, remote, in) ==
    IF s.docker_client
    THEN CASE remote = "hang" -> [s EXCEPT !.awaiting = "remove_image"]
           [] remote = "err" ->
                 add_notification(s, "Failed to remove image", "Error")
           [] OTHER ->
                 refresh_data(add_notification(s, "Image removed",
                                               "Success"), in)
    ELSE s

\* App::handle_ui_action for the actions handle_key_event returns; remote:
\* how the action's remote call returns, in: the inputs of its refresh_data
handle_ui_action(s, action, remote, in) ==
    CASE action.kind \in {"None", "Quit", "InspectImage"} -> s
      [] action.kind = "StartContainer" -> start_container(s, remote, in)
      [] action.kind = "StopContainer" ->
            container_action(s, "Container stopped", "Failed to stop",
                             remote, in)
      [] action.kind = "RestartContainer" ->
            container_action(s, "Container restarted", "Failed to restart",
                             remote, in)
      [] action.kind = "PauseContainer" ->
            container_action(s, "Container paused", "Failed to pause",
                             remote, in)
      [] action.kind = "UnpauseContainer" ->
            container_action(s, "Container unpaused", "Failed to unpause",
                             remote, in)
      [] action.kind = "KillContainer" ->
            container_action(s, "Container killed", "Failed to kill",
                             remote, in)
      [] action.kind = "RemoveContainer" ->
            container_action(s, "Container removed", "Failed to remove",
                             remote, in)
      [] action.kind = "ShowContainerLogs" ->
            show_container_logs(s, action.id)
      [] action.kind = "RemoveImage" -> remove_image(s, remote, in)
      [] action.kind = "PruneImages" -> prune_images(s, remote, in)

\* variant of break_on_quit that ignores the quit flag of the UI
break_on_quit_never(s, quit) == s

\* App::run_event_loop, "should_quit = ui_app.should_quit ... if should_quit
\* { break }"
break_on_quit(s, quit) == [s EXCEPT !.should_quit = quit]

\* App::run_event_loop, "if crossterm::event::poll(timeout)?" for a key
\* event: the UI handles it, its state becomes the state, the action is
\* executed, the loop breaks on quit
handle_key(s, key, cstate, image, remote, in) ==
    LET r == handle_key_event(s, key, cstate, image)
    IN  break_on_quit(handle_ui_action(r.state, r.action, remote, in),
                      r.should_quit)

(***************************************************************************)
(* The periodic tasks of one tick, in the order of App::run_event_loop.    *)
(* in: log_due, stats_due, refresh_due (the three timers), refresh (the    *)
(* inputs of refresh_data), resize (how the remote resize returns),        *)
(* elapsed (the milliseconds since the tick before).                       *)
(***************************************************************************)
periodic_exec(s, in) ==
    LET s1 == Then(s, check_exec_start)
        s2 == Then(s1, tick_exec_spinner)
        s3 == Then(s2, check_exec_output)
        s4 == Then(s3, LAMBDA x : resize_check(x, in.resize))
    IN  Then(s4, LAMBDA x :
            IF x.awaiting /= "none" THEN x
            ELSE clear_old_notifications(elapse(x, in.elapsed),
                                         MAX_AGE_SECONDS))

periodic_tasks(s, in) ==
    LET s1 == Then(s, check_log_fetch)
        s2 == Then(s1, check_stats_fetch)
        s3 == Then(s2, LAMBDA x : log_follow(x, in.log_due))
        s4 == Then(s3, LAMBDA x : stats_follow(x, in.stats_due))
        s5 == Then(s4, LAMBDA x : IF in.refresh_due
                                  THEN refresh_data(x, in.refresh) ELSE x)
    IN  Then(s5, LAMBDA x :
            IF x.awaiting /= "none" THEN x ELSE periodic_exec(x, in))

(***************************************************************************)
(* Actions.  env names the inputs the environment draws from: ids (the     *)
(* containers actions are requested for), lists (what list_containers may  *)
(* return), sizes (terminal sizes), outs (how a synchronous remote call    *)
(* may return), list_outs (how list_containers may return), solo (the user works with one of the log, stats and exec   *)
(* panels at a time: a request for one is made only when the others are    *)
(* idle).                                                                  *)
(***************************************************************************)
\* App::new and AppState::default
InitApp ==
    /\ docker_client \in BOOLEAN
    /\ docker_connected = docker_client
    /\ log_fetch_rx = 0
    /\ last_log_fetch = FALSE
    /\ stats_fetch_rx = 0
    /\ last_stats_fetch = FALSE
    /\ exec_runtime = None
    /\ exec_start_rx = 0
    /\ exec_start_pending = None
    /\ last_terminal_size = None
    /\ containers = <<>>
    /\ container_list_selected = 0
    /\ selected_container = None
    /\ terminal_size = <<80, 24>>
    /\ notifications = <<>>
    /\ log_view = None
    /\ stats_view = None
    /\ exec_view = None
    /\ current_tab = "Containers"
    /\ show_help = FALSE
    /\ confirm_dialog = None
    /\ jobs = [j \in JobIds |-> FreeJob]
    /\ orphans = EmptyBag
    /\ awaiting = "none"
    /\ should_quit = FALSE
    /\ overflow = FALSE
    /\ last = [op |-> "new", id |-> "", from |-> ""]

\* the state after construction; no pure function is called on its own
Init == InitApp /\ call = [fn |-> "none", arg |-> <<>>, ret |-> <<>>]

\* the main loop is not suspended in a remote call and has not quit
LoopReady == awaiting = "none" /\ ~should_quit

\* an input event is taken (crossterm::event::poll returned true)
InputReady == LoopReady /\ Len(notifications) <= MaxNotifLoad

\* no log view and no log fetch
LogsIdle == IsNone(log_view) /\ log_fetch_rx = 0

\* no stats view and no stats fetch
StatsIdle == IsNone(stats_view) /\ stats_fetch_rx = 0

\* no exec view, no exec session and no exec start
ExecIdle == IsNone(exec_view) /\ IsNone(exec_runtime) /\ exec_start_rx = 0

\* the exec session manager's state: Running, Starting or Idle
ExecPhase ==
    IF IsSome(exec_runtime) THEN "Running"
    ELSE IF IsSome(exec_start_pending) THEN "Starting"
    ELSE "Idle"

\* the handler's result r becomes the state; last records the operation
\* ("Key" for the keys that move the highlight, close a view or toggle
\* follow mode) and, for exec requests, the container and the state the
\* request was made in
StepFrom(r, op, id, from) ==
    \E v \in {r} :
        /\ ~v.overflow
        /\ Commit(v)
        /\ last' = [op |-> op, id |-> id, from |-> from]
        /\ call' = call

Step(r, op, id) == StepFrom(r, op, id, "")

\* a step of a worker or of the forwarder task: r becomes the state.  It is
\* no operation of the main loop, so last keeps its value.
EnvStep(r) ==
    \E v \in {r} :
        /\ ~v.overflow
        /\ Commit(v)
        /\ last' = last
        /\ call' = call

AllOk == [connect |-> "ok", ping |-> "ok", list |-> "ok",
          containers |-> <<>>, rest |-> "ok"]

\* UiApp::handle_event, Event::Resize
EventResize(env) ==
    /\ InputReady
    /\ \E size \in env.sizes :
          Step([S EXCEPT !.terminal_size = size], "Resize", "")

\* UiApp::handle_key_event, j / Down on the Containers tab
EventNextContainer ==
    /\ InputReady
    /\ Step(next_container(S), "Key", "")

\* UiApp::handle_key_event, k / Up on the Containers tab
EventPreviousContainer ==
    /\ InputReady
    /\ Step(previous_container(S), "Key", "")

\* UI-driven state change: the log view is closed
EventCloseLogView ==
    /\ InputReady
    /\ IsSome(log_view)
    /\ Step(close_log_view(S), "Key", "")

\* UI-driven state change: follow mode of the log view is toggled
EventToggleLogFollow ==
    /\ InputReady
    /\ IsSome(log_view)
    /\ Step(toggle_log_follow(S), "Key", "")

\* UI-driven state change: a search pattern is entered in the log view
EventLogSearch(env) ==
    /\ InputReady
    /\ IsSome(log_view)
    /\ \E pattern \in env.ids \cup {""} :
          Step(set_log_search(S, pattern), "Key", "")

\* UI-driven state change: the search of the log view is cleared
EventClearLogSearch ==
    /\ InputReady
    /\ IsSome(log_view)
    /\ Step(clear_log_search(S), "Key", "")

\* UI-driven state change: jump to the next match
EventNextSearchMatch ==
    /\ InputReady
    /\ IsSome(log_view)
    /\ Step(next_search_match(S), "Key", "")

\* UI-driven state change: jump to the previous match
EventPrevSearchMatch ==
    /\ InputReady
    /\ IsSome(log_view)
    /\ Step(prev_search_match(S), "Key", "")

\* UI-driven state change: follow mode of the stats view is toggled
EventToggleStatsFollow ==
    /\ InputReady
    /\ IsSome(stats_view)
    /\ Step(toggle_stats_follow(S), "Key", "")

\* UiAction::ShowContainerLogs(id)
ShowContainerLogs(env) ==
    /\ InputReady
    /\ env.solo => StatsIdle /\ ExecIdle
    /\ \E id \in env.ids :
          Step(show_container_logs(S, id), "ShowContainerLogs", "")

\* UiAction::ShowContainerStats(id)
ShowContainerStats(env) ==
    /\ InputReady
    /\ env.solo => LogsIdle /\ ExecIdle
    /\ \E id \in env.ids :
          Step(show_container_stats(S, id), "ShowContainerStats", "")

\* UiAction::ExecContainer(id)
ExecContainer(env) ==
    /\ InputReady
    /\ env.solo => LogsIdle /\ StatsIdle
    /\ \E id \in env.ids :
          StepFrom(start_exec_for_container(S, id), "ExecContainer", id,
                   ExecPhase)

\* UiAction::ExecInput(bytes), the bytes of an encoded key
ExecInput(env) ==
    /\ InputReady
    /\ IsSome(exec_runtime)
    /\ \E key \in env.exec_keys, remote \in env.writes :
          /\ IsSome(encode_key_event(key))
          /\ Len(Unwrap(exec_runtime).echo)
                + Len(Unwrap(encode_key_event(key))) <= MaxEcho
          /\ Step(write_exec_input(S, Unwrap(encode_key_event(key)),
                                   remote),
                  "ExecInput", "")

\* UiAction::StartContainer(id)
StartContainer(env) ==
    /\ InputReady
    /\ \E id \in env.ids, remote \in env.outs, in \in RefreshInputs(env) :
          /\ remote /= "ok" => in = AllOk
          /\ docker_client => in.connect = "ok"
          /\ Step(start_container(S, remote, in), "StartContainer", id)

\* UiAction::Quit (q, Ctrl+C): should_quit breaks the loop
Quit ==
    /\ InputReady
    /\ Step(break_on_quit(S, TRUE), "Quit", "")

\* the highlighted image an environment offers to the key handler: none
\* unless the environment lists images
ImagesOf(env) == IF "images" \in DOMAIN env THEN env.images ELSE {None}

\* a key event arrives (Event::Key); cstate: the state of the highlighted
\* container, image: the highlighted image (read on the Images tab only).
\* The outcome of the remote call and the inputs of the refresh after it are
\* drawn for the actions that make a remote call.  last records "Quit" for
\* a key whose action is Quit, "Key" otherwise.
KeyEvent(env) ==
    /\ InputReady
    /\ \E key \in env.keys, cstate \in {"Running", "Paused", "Exited"},
          image \in (IF current_tab = "Images" THEN ImagesOf(env)
                     ELSE {None}) :
          LET kind == handle_key_event(S, key, cstate, image).action.kind
              local == kind \in {"None", "Quit", "InspectImage",
                                 "ShowContainerLogs"}
          IN  \E remote \in (IF local THEN {"ok"} ELSE env.outs),
                 in \in (IF local THEN {AllOk} ELSE RefreshInputs(env)) :
                 /\ remote /= "ok" => in = AllOk
                 /\ docker_client => in.connect = "ok"
                 /\ Step(handle_key(S, key, cstate, image, remote, in),
                         IF kind = "Quit" THEN "Quit" ELSE "Key", "")

\* the periodic tasks of a tick (last_tick.elapsed() >= tick_rate)
PeriodicTasks(env) ==
    /\ LoopReady
    /\ \E log_due \in (IF /\ IsSome(log_view) /\ last_log_fetch
                          /\ Unwrap(log_view).follow
                       THEN BOOLEAN ELSE {TRUE}),
          stats_due \in (IF /\ IsSome(stats_view) /\ last_stats_fetch
                            /\ Unwrap(stats_view).follow
                         THEN BOOLEAN ELSE {TRUE}),
          refresh_due \in BOOLEAN,
          refresh \in RefreshInputs(env),
          resize \in (IF /\ IsSome(exec_runtime) \/ exec_start_rx /= 0
                         /\ last_terminal_size /= Some(terminal_size)
                      THEN env.outs ELSE {"ok"}),
          elapsed \in env.elapsed :
          /\ elapsed >= tick_rate
          /\ docker_client => refresh.connect = "ok"
          /\ ~refresh_due => refresh = AllOk
          /\ Step(periodic_tasks(S, [log_due |-> log_due,
                                     stats_due |-> stats_due,
                                     refresh_due |-> refresh_due,
                                     refresh |-> refresh,
                                     resize |-> resize,
                                     elapsed |-> elapsed]),
                  "Tick", "")

\* a log worker ends: fetch_logs returned, the result is sent.  A stream
\* that fails or hangs does so before its first entry.
LogWorkerDone ==
    \E j \in JobIds, remote \in Outcomes, k \in 0..MaxFetch :
        /\ jobs[j].kind = "logs" /\ jobs[j].phase = "running"
        /\ remote /= "ok" => k = 0
        /\ EnvStep([S EXCEPT !.jobs = send_result(jobs, j,
                         fetch_logs(jobs[j].target, remote, k))])

\* the read loop of a log worker meets an error item or an item that does
\* not parse and goes on reading
LogReadSkip ==
    \E j \in JobIds :
        /\ jobs[j].kind = "logs" /\ jobs[j].phase = "running"
        /\ EnvStep([S EXCEPT !.jobs = read_skip(jobs, j)])

\* a stats worker ends: fetch_stats returned, the result is sent
StatsWorkerDone ==
    \E j \in JobIds, remote \in Outcomes :
        /\ jobs[j].kind = "stats" /\ jobs[j].phase = "running"
        /\ EnvStep([S EXCEPT !.jobs = send_result(jobs, j,
                         fetch_stats(jobs[j].target, remote))])

\* the exec start job ends and sends Started or Failed
ExecWorkerDone ==
    \E j \in JobIds, outcome \in ExecJobOutcomes :
        /\ jobs[j].kind = "exec" /\ jobs[j].phase = "running"
        /\ EnvStep([S EXCEPT !.jobs = send_result(jobs, j,
                                         exec_start_job(jobs[j], j, outcome))])

\* a worker dies without sending: its sender is dropped
WorkerGone ==
    \E j \in JobIds :
        /\ jobs[j].phase = "running"
        /\ EnvStep([S EXCEPT !.jobs = drop_tx(jobs, j)])

\* a worker whose receiver was dropped ends: its result is discarded.  No
\* operation of the main loop can observe it, so last records it.
StaleWorkerDone ==
    \E o \in BagToSet(orphans) :
        /\ Commit(discard_result(S, o))
        /\ last' = [op |-> "StaleWorkerDone", id |-> o.target,
                    from |-> o.kind]
        /\ call' = call

\* the forwarder task of App::check_exec_start takes a chunk from the output
\* stream and puts it into the channel
ExecStreamChunk ==
    /\ IsSome(exec_runtime)
    /\ Unwrap(exec_runtime).forwarder = "copying"
    /\ Unwrap(exec_runtime).yielded < MaxChunks
    /\ ~channel_full(Unwrap(exec_runtime))
    /\ EnvStep([S EXCEPT !.exec_runtime =
                   Some(forward_chunk(Unwrap(exec_runtime),
                                      chunk(Unwrap(exec_runtime).yielded
                                            + 1)))])

\* the forwarder task takes the remote's echo from the output stream and
\* puts it into the channel
ExecStreamEcho ==
    /\ IsSome(exec_runtime)
    /\ Unwrap(exec_runtime).forwarder = "copying"
    /\ Unwrap(exec_runtime).echo /= <<>>
    /\ Unwrap(exec_runtime).yielded < MaxChunks
    /\ ~channel_full(Unwrap(exec_runtime))
    /\ EnvStep([S EXCEPT !.exec_runtime =
                   Some(forward_echo(Unwrap(exec_runtime)))])

\* the output stream ends or yields an error
ExecStreamEnd ==
    /\ IsSome(exec_runtime)
    /\ Unwrap(exec_runtime).forwarder = "copying"
    /\ EnvStep([S EXCEPT !.exec_runtime =
                   Some(stream_end(Unwrap(exec_runtime)))])

\* the forwarder's send of the end item returns
ExecSendEnd ==
    /\ IsSome(exec_runtime)
    /\ Unwrap(exec_runtime).forwarder = "ending"
    /\ ~channel_full(Unwrap(exec_runtime))
    /\ EnvStep([S EXCEPT !.exec_runtime =
                   Some(send_end(Unwrap(exec_runtime)))])

(***************************************************************************)
(* Specifications.  Spec: the whole loop for one container.  SpecFetch:    *)
(* the fetch coordinators for two containers.  SpecExec: the exec session  *)
(* manager for two containers.                                             *)
(***************************************************************************)
LoopEnv == [ids |-> {"A"}, lists |-> {<<"A">>}, sizes |-> {<<80, 24>>},
            outs |-> Outcomes, list_outs |-> Outcomes, solo |-> TRUE,
            elapsed |-> {3000},
            writes |-> Outcomes,
            exec_keys |-> {Key("Char", 97, {})}]

Next ==
    \/ EventResize(LoopEnv)
    \/ EventNextContainer
    \/ EventPreviousContainer
    \/ EventCloseLogView
    \/ EventToggleLogFollow
    \/ EventToggleStatsFollow
    \/ ShowContainerLogs(LoopEnv)
    \/ ShowContainerStats(LoopEnv)
    \/ ExecContainer(LoopEnv)
    \/ ExecInput(LoopEnv)
    \/ StartContainer(LoopEnv)
    \/ Quit
    \/ PeriodicTasks(LoopEnv)
    \/ LogWorkerDone
    \/ StatsWorkerDone
    \/ ExecWorkerDone
    \/ WorkerGone
    \/ StaleWorkerDone
    \/ ExecStreamChunk
    \/ ExecStreamEnd
    \/ ExecSendEnd

Spec == Init /\ [][Next]_vars

FetchEnv == [ids |-> {"A", "B"},
             lists |-> {<<"A", "B">>},
             sizes |-> {<<80, 24>>}, outs |-> {"ok", "err"},
             list_outs |-> {"ok", "err"}, solo |-> TRUE,
            elapsed |-> {3000},
             writes |-> {"ok", "err"},
             exec_keys |-> {Key("Char", 97, {})}]

NextFetch ==
    \/ EventNextContainer
    \/ EventPreviousContainer
    \/ EventCloseLogView
    \/ EventToggleLogFollow
    \/ EventToggleStatsFollow
    \/ ShowContainerLogs(FetchEnv)
    \/ ShowContainerStats(FetchEnv)
    \/ PeriodicTasks(FetchEnv)
    \/ LogWorkerDone
    \/ StatsWorkerDone
    \/ WorkerGone
    \/ StaleWorkerDone

SpecFetch == Init /\ [][NextFetch]_vars

ExecEnv == [ids |-> {"A", "B"}, lists |-> {},
            sizes |-> {<<80, 24>>, <<120, 30>>}, outs |-> {"ok", "err"},
            list_outs |-> {"ok"}, solo |-> TRUE,
            elapsed |-> {3000},
            writes |-> {"ok", "err"},
            exec_keys |-> {Key("Char", 97, {})}]

NextExec ==
    \/ EventResize(ExecEnv)
    \/ ExecContainer(ExecEnv)
    \/ ExecInput(ExecEnv)
    \/ PeriodicTasks(ExecEnv)
    \/ ExecWorkerDone
    \/ WorkerGone
    \/ StaleWorkerDone
    \/ ExecStreamChunk
    \/ ExecStreamEnd
    \/ ExecSendEnd

SpecExec == Init /\ [][NextExec]_vars

\* the exec session manager at one terminal size, with ticks that keep
\* occurring (the loop's poll timeout) and a forwarder task that the runtime
\* keeps scheduling
LiveEnv == [ids |-> {"A", "B"}, lists |-> {}, sizes |-> {<<80, 24>>},
            outs |-> {"ok", "err"}, list_outs |-> {"ok"}, solo |-> TRUE,
            elapsed |-> {3000},
            writes |-> {"ok", "err"},
            exec_keys |-> {Key("Char", 97, {})}]

NextLive ==
    \/ ExecContainer(LiveEnv)
    \/ PeriodicTasks(LiveEnv)
    \/ ExecWorkerDone
    \/ WorkerGone
    \/ StaleWorkerDone
    \/ ExecStreamChunk
    \/ ExecStreamEnd
    \/ ExecSendEnd

SpecExecLive ==
    /\ Init
    /\ [][NextLive]_vars
    /\ WF_vars(PeriodicTasks(LiveEnv))
    /\ WF_vars(ExecSendEnd)

(***************************************************************************)
(* The stats panel and the exec panel of one container, requested in any   *)
(* order, with a remote that answers.                                      *)
(***************************************************************************)
PanelEnv == [ids |-> {"A"}, lists |-> {<<"A">>}, sizes |-> {<<80, 24>>},
             outs |-> {"ok"}, list_outs |-> {"ok"}, solo |-> FALSE,
             elapsed |-> {3000},
             writes |-> {"ok"},
             exec_keys |-> {Key("Char", 97, {})}]

NextPanel ==
    \/ ShowContainerStats(PanelEnv)
    \/ ExecContainer(PanelEnv)
    \/ PeriodicTasks(PanelEnv)
    \/ StatsWorkerDone
    \/ ExecWorkerDone
    \/ ExecStreamEnd
    \/ ExecSendEnd

SpecPanel == Init /\ [][NextPanel]_vars

(***************************************************************************)
(* The container list: refreshes that deliver lists of different lengths   *)
(* and orders, the highlight moved by keys, the stats panel following it.  *)
(***************************************************************************)
NavEnv == [ids |-> {"A", "B", "C"},
           lists |-> {<<"A">>, <<"A", "B">>, <<"B", "A">>,
                      <<"A", "B", "C">>},
           sizes |-> {<<80, 24>>},
           outs |-> {"ok"}, list_outs |-> {"ok"}, solo |-> TRUE,
           elapsed |-> {3000},
           writes |-> {"ok"},
           exec_keys |-> {Key("Char", 97, {})}]

NextNav ==
    \/ EventNextContainer
    \/ EventPreviousContainer
    \/ ShowContainerStats(NavEnv)
    \/ PeriodicTasks(NavEnv)
    \/ StatsWorkerDone

SpecNav == Init /\ [][NextNav]_vars

(***************************************************************************)
(* The log view in follow mode: the view is requested once and never       *)
(* closed, the client connects, the remote calls of the loop return or     *)
(* hang, ticks keep occurring while the loop is not suspended, and the log *)
(* worker keeps running its read loop, whatever the stream yields.         *)
(***************************************************************************)
FollowEnv == [ids |-> {"A", "B"}, lists |-> {<<"A">>, <<"A", "B">>},
              sizes |-> {<<80, 24>>},
              outs |-> {"ok"}, list_outs |-> {"ok", "hang"}, solo |-> TRUE,
              elapsed |-> {3000},
              writes |-> {"ok"},
              exec_keys |-> {Key("Char", 97, {})}]

NextFollow ==
    \/ IsNone(log_view) /\ ShowContainerLogs(FollowEnv)
    \/ PeriodicTasks(FollowEnv)
    \/ LogWorkerDone
    \/ LogReadSkip

SpecFollowLive ==
    /\ Init
    /\ [][NextFollow]_vars
    /\ WF_vars(PeriodicTasks(FollowEnv))
    /\ WF_vars(LogWorkerDone \/ LogReadSkip)

(***************************************************************************)
(* The log view with its search: logs of two containers requested and      *)
(* requested again, fetched and appended, searched and stepped through.    *)
(***************************************************************************)
LogEnv == [ids |-> {"A", "B"}, lists |-> {<<"A", "B">>},
           sizes |-> {<<80, 24>>},
           outs |-> {"ok"}, list_outs |-> {"ok"}, solo |-> TRUE,
           elapsed |-> {3000},
           writes |-> {"ok"},
           exec_keys |-> {Key("Char", 97, {})}]

NextLog ==
    \/ ShowContainerLogs(LogEnv)
    \/ EventLogSearch(LogEnv)
    \/ EventClearLogSearch
    \/ EventNextSearchMatch
    \/ EventPrevSearchMatch
    \/ PeriodicTasks(LogEnv)
    \/ LogWorkerDone
    \/ StaleWorkerDone

SpecLog == Init /\ [][NextLog]_vars

(***************************************************************************)
(* The pure functions on their own: the encoder on a key event, the        *)
(* selector on an entrypoint and a cmd array.  The call is drawn at the    *)
(* start and the function is applied to it.                                *)
(***************************************************************************)
\* the fields of App and AppState and the workers
appvars == <<docker_client, log_fetch_rx, last_log_fetch, stats_fetch_rx,
             last_stats_fetch, exec_runtime, exec_start_rx,
             exec_start_pending, last_terminal_size, docker_connected,
             containers, container_list_selected, selected_container,
             terminal_size, notifications, log_view, stats_view, exec_view,
             current_tab, show_help, confirm_dialog,
             jobs, orphans, awaiting, should_quit, overflow>>

\* the key events the encoder is applied to: the KeyCode variants without a
\* char (BackTab, F1 and Null have no arm in encode_key_event) and
\* KeyCode::Char for a c e E 1 space, e-acute, the euro sign and an emoji
\* (UTF-8 of one to four bytes), under every set of modifiers
KeyEvents ==
    {Key(c, 0, m) :
        c \in {"Enter", "Backspace", "Tab", "Esc", "Up", "Down", "Right",
               "Left", "Home", "End", "PageUp", "PageDown", "Delete",
               "Insert", "BackTab", "F1", "Null"},
        m \in SUBSET {"CONTROL", "SHIFT", "ALT"}}
    \cup {Key("Char", cp, m) :
             cp \in {97, 99, 101, 69, 49, 32, 233, 8364, 128512},
             m \in SUBSET {"CONTROL", "SHIFT", "ALT"}}

\* the entrypoint and cmd arrays the selector is applied to: at most MaxArgs
\* of the strings /bin/bash, sh, -c, -lc, -i, /usr/bin/myserver, --port
Arrays ==
    UNION {[1..n -> {<<"", "bin", "bash">>, <<"sh">>, <<"-c">>, <<"-lc">>,
                     <<"-i">>, <<"", "usr", "bin", "myserver">>,
                     <<"--port">>}] : n \in 0..MaxArgs}

\* one call, of the encoder, of the selector or of the pane size, is drawn
InitPure ==
    /\ InitApp
    /\ call \in
          {[fn |-> "encode_key_event", arg |-> key, ret |-> <<>>] :
              key \in KeyEvents}
          \cup {[fn |-> "select_exec_command",
                 arg |-> [entrypoint |-> e, cmd |-> c], ret |-> <<>>] :
                   e \in Arrays, c \in Arrays}
          \cup {[fn |-> "compute_exec_pane_size", arg |-> <<w, h>>,
                 ret |-> <<>>] :
                   w \in {0, 1, 59, 60, 80, 120, 1112, 1113, 2000, 65535},
                   h \in {0, 1, 2, 3, 9, 10, 11, 24, 65535}}

\* encode_key_event(key) returns
EncodeKeyEvent ==
    /\ call.fn = "encode_key_event"
    /\ call.ret = <<>>
    /\ call' = [call EXCEPT !.ret = Some(encode_key_event(call.arg))]
    /\ UNCHANGED <<appvars, last>>

\* select_exec_command(entrypoint, cmd) returns
SelectExecCommand ==
    /\ call.fn = "select_exec_command"
    /\ call.ret = <<>>
    /\ call' = [call EXCEPT !.ret =
                   Some(select_exec_command(call.arg.entrypoint,
                                            call.arg.cmd))]
    /\ UNCHANGED <<appvars, last>>

\* compute_exec_pane_size(term_width, term_height) returns; in a build with
\* overflow checks the call panics when the product overflows
ComputeExecPaneSize ==
    /\ call.fn = "compute_exec_pane_size"
    /\ call.ret = <<>>
    /\ \E checks \in BOOLEAN :
          call' = [call EXCEPT !.ret =
                     IF checks /\ list_width_product(call.arg[1]) >= U16
                     THEN Some([panic |-> TRUE, size |-> <<>>])
                     ELSE Some([panic |-> FALSE,
                                size |-> compute_exec_pane_size(
                                             call.arg[1], call.arg[2])])]
    /\ UNCHANGED <<appvars, last>>

NextPure == EncodeKeyEvent \/ SelectExecCommand \/ ComputeExecPaneSize

SpecPure == InitPure /\ [][NextPure]_vars

(***************************************************************************)
(* The main loop with the keys of the UI: one container, keys with and     *)
(* without modifiers, pressed and released.                                *)
(***************************************************************************)
UiEnv == [ids |-> {"A"}, lists |-> {<<"A">>}, sizes |-> {<<80, 24>>},
          outs |-> {"ok", "err"}, list_outs |-> {"ok"}, solo |-> TRUE,
          elapsed |-> {3000},
          keys |-> {Key("Char", c, {}) :
                       c \in {113, 99, 49, 50, 115, 107, 100, 108, 63,
                              121, 110}}
                   \cup {Key("Char", 99, {"CONTROL"}),
                         Key("Char", 113, {"SHIFT"}),
                         Key("Enter", 0, {}), Key("Esc", 0, {}),
                         Key("Right", 0, {}), Key("Up", 0, {}),
                         [Key("Char", 113, {}) EXCEPT !.kind = "Release"]},
          writes |-> {"ok"},
          exec_keys |-> {Key("Char", 97, {})}]

NextUi ==
    \/ KeyEvent(UiEnv)
    \/ PeriodicTasks(UiEnv)
    \/ LogWorkerDone
    \/ WorkerGone
    \/ StaleWorkerDone

SpecUi == Init /\ [][NextUi]_vars

(***************************************************************************)
(* The confirmation dialog: the keys that open it on the Containers and    *)
(* the Images tab (k, d, p), the keys that answer it, the tab keys, stop   *)
(* (s), the help overlay and a key without a binding, with and without a   *)
(* highlighted image.                                                      *)
(***************************************************************************)
DialogEnv == [ids |-> {"A"}, lists |-> {<<"A">>}, sizes |-> {<<80, 24>>},
              outs |-> {"ok", "err"}, list_outs |-> {"ok"}, solo |-> TRUE,
              elapsed |-> {3000},
              keys |-> {Key("Char", c, {}) :
                           c \in {49, 50, 115, 107, 100, 112, 105, 63, 121,
                                  110, 120}}
                       \cup {Key("Enter", 0, {}), Key("Esc", 0, {}),
                             [Key("Char", 121, {}) EXCEPT !.kind = "Release"]},
              images |-> {None, Some("I")},
              writes |-> {"ok"},
              exec_keys |-> {Key("Char", 97, {})}]

NextDialog ==
    \/ KeyEvent(DialogEnv)
    \/ PeriodicTasks(DialogEnv)

SpecDialog == Init /\ [][NextDialog]_vars

(***************************************************************************)
(* An exec session whose remote pty echoes its input: the keys a and the   *)
(* euro sign (three bytes) are written to the session, Ctrl+e is not; the  *)
(* remote echoes what it is sent between chunks of its own output.         *)
(***************************************************************************)
EchoEnv == [ids |-> {"A"}, lists |-> {}, sizes |-> {<<80, 24>>},
            outs |-> {"ok"}, list_outs |-> {"ok"}, solo |-> TRUE,
            elapsed |-> {3000}, writes |-> {"ok", "echo"},
            exec_keys |-> {Key("Char", 97, {}), Key("Char", 8364, {}),
                           Key("Char", 101, {"CONTROL"})}]

NextEcho ==
    \/ ExecContainer(EchoEnv)
    \/ ExecInput(EchoEnv)
    \/ PeriodicTasks(EchoEnv)
    \/ ExecWorkerDone
    \/ ExecStreamChunk
    \/ ExecStreamEcho
    \/ ExecStreamEnd
    \/ ExecSendEnd

SpecEcho == Init /\ [][NextEcho]_vars

(***************************************************************************)
(* The notification queue under add_notification and the ticks' expiry.    *)
(* The messages added are numbered ("1", "2", ...), call.arg counts them;  *)
(* the levels take turns.  Time passes between ticks, a second or three at *)
(* a time (a tick is not due before tick_rate has passed), and ticks keep  *)
(* occurring.                                                              *)
(***************************************************************************)
InitNotify ==
    InitApp /\ call = [fn |-> "add_notification", arg |-> 0, ret |-> <<>>]

\* some handler calls add_notification
AddNotification ==
    /\ LoopReady
    /\ call.arg < MaxAdds
    /\ Commit(add_notification(S, ToString(call.arg + 1),
                               <<"Info", "Success", "Warning", "Error">>[
                                   (call.arg % 4) + 1]))
    /\ call' = [call EXCEPT !.arg = @ + 1]
    /\ last' = [op |-> "AddNotification", id |-> "", from |-> ""]

NotifyEnv == [ids |-> {"A"}, lists |-> {<<"A">>}, sizes |-> {<<80, 24>>},
              outs |-> {"ok"}, list_outs |-> {"ok"}, solo |-> TRUE,
              elapsed |-> {0, 1000, 3000},
              writes |-> {"ok"},
              exec_keys |-> {Key("Char", 97, {})}]

NextNotify ==
    \/ AddNotification
    \/ PeriodicTasks(NotifyEnv)

SpecNotify ==
    /\ InitNotify
    /\ [][NextNotify]_vars
    /\ WF_vars(PeriodicTasks(NotifyEnv))

(***************************************************************************)
(* Properties.                                                             *)
(***************************************************************************)
\* the receivers of kind k that App holds
Receivers(k) == {j \in JobIds : jobs[j].kind = k}

\* C1: after any sequence of fetch starts and polls App holds at most one
\* pending result receiver per kind (logs, stats), and it is the one stored
\* in log_fetch_rx / stats_fetch_rx: a start while a fetch of the kind is
\* in flight replaces the receiver.
C1_OneReceiverPerKind ==
    /\ Cardinality(Receivers("logs")) <= 1
    /\ Cardinality(Receivers("stats")) <= 1
    /\ \A j \in Receivers("logs") : log_fetch_rx = j
    /\ \A j \in Receivers("stats") : stats_fetch_rx = j

\* a manual log request has replaced a fetch that was still running: the old
\* worker runs on without a receiver, the new one is tracked
C1_Witness ==
    /\ last.op = "ShowContainerLogs"
    /\ log_fetch_rx /= 0
    /\ jobs[log_fetch_rx].phase = "running"
    /\ \E o \in BagToSet(orphans) : o.kind = "logs"

\* C2: log entries or a stats snapshot fetched for container A never appear
\* in a log / stats view whose container is B (entries and snapshots name
\* the container they were read from).
C2_NoForeignResult ==
    /\ IsSome(log_view) =>
          \A i \in 1..Len(Unwrap(log_view).logs) :
              Unwrap(log_view).logs[i][1] = Unwrap(log_view).container_id
    /\ IsSome(stats_view) /\ IsSome(Unwrap(stats_view).stats) =>
          Unwrap(Unwrap(stats_view).stats) = Unwrap(stats_view).container_id

\* the container of the running session or of the pending start, if any
ExecOwner ==
    IF IsSome(exec_runtime) THEN Some(Unwrap(exec_runtime).container_id)
    ELSE IF IsSome(exec_start_pending)
         THEN Some(Unwrap(exec_start_pending).container_id)
         ELSE None

\* the container ids an exec can be requested for
ExecIds == ExecEnv.ids

\* C3: in every reachable state there is at most one exec session and at
\* most one pending start, never both at once; the pending start is the one
\* whose result receiver App holds, and App holds no other exec receiver.
C3_SessionXorPending ==
    /\ ~(IsSome(exec_runtime) /\ IsSome(exec_start_pending))
    /\ Cardinality(Receivers("exec")) <= 1
    /\ \A j \in Receivers("exec") : exec_start_rx = j
    /\ IsSome(exec_start_pending) <=> exec_start_rx /= 0

\* a session runs for one container and a start was just requested for the
\* other one: still one session, no pending start
C3_Witness ==
    /\ last.op = "ExecContainer"
    /\ last.from = "Running"
    /\ IsSome(exec_runtime)
    /\ Unwrap(exec_runtime).container_id /= last.id

\* C4: while an exec session is Running or Starting for A, a start request
\* for another container B changes nothing except appending exactly one
\* Warning notification (session, pending record, view, receiver and jobs
\* are unchanged, no job is submitted).
C4_OtherContainerRejected ==
    \A id \in ExecIds :
        IsSome(ExecOwner) /\ Unwrap(ExecOwner) /= id =>
            LET r == start_exec_for_container(S, id)
                n == Len(notifications)
            IN  /\ Len(r.notifications) = n + 1
                /\ SubSeq(r.notifications, 1, n) = notifications
                /\ r.notifications[n + 1].level = "Warning"
                /\ [r EXCEPT !.notifications = notifications] = S

\* a start is pending for one container and a request for the other one was
\* just answered with a warning
C4_Witness ==
    /\ last.op = "ExecContainer"
    /\ last.from = "Starting"
    /\ IsSome(exec_start_pending)
    /\ Unwrap(exec_start_pending).container_id /= last.id
    /\ notifications /= <<>>
    /\ notifications[Len(notifications)].level = "Warning"

\* C5: a start request for A while a session is Running for A closes it (no
\* exec view, no session, no pending start, no receiver, no notification);
\* the polls of exec start and exec output and the spinner tick that follow
\* change nothing.
C5_CloseThenIdle ==
    IsSome(exec_runtime) =>
        LET r == start_exec_for_container(S, Unwrap(exec_runtime).container_id)
        IN  /\ IsNone(r.exec_view)
            /\ IsNone(r.exec_runtime)
            /\ IsNone(r.exec_start_pending)
            /\ r.exec_start_rx = 0
            /\ r.notifications = notifications
            /\ check_exec_start(r) = r
            /\ tick_exec_spinner(r) = r
            /\ check_exec_output(r) = r

\* the running session was just closed by a request for its own container
C5_Witness ==
    /\ last.op = "ExecContainer"
    /\ last.from = "Running"
    /\ IsNone(exec_runtime)
    /\ IsNone(exec_view)

\* a request for the container of the pending start cancels it
CancelsPending ==
    IsSome(exec_start_pending) =>
        LET r == start_exec_for_container(S,
                     Unwrap(exec_start_pending).container_id)
        IN  /\ IsNone(r.exec_start_pending)
            /\ r.exec_start_rx = 0
            /\ \A j \in JobIds : r.jobs[j].kind /= "exec"
            /\ IsNone(r.exec_view)
            /\ IsNone(r.exec_runtime)
            /\ r.notifications = notifications

\* a step that creates the session takes the result waiting in the channel
\* whose receiver App holds in exec_start_rx
PromotesTracked ==
    IsNone(exec_runtime) /\ IsSome(exec_runtime') =>
        /\ exec_start_rx /= 0
        /\ jobs[exec_start_rx].kind = "exec"
        /\ jobs[exec_start_rx].phase = "ready"
        /\ Unwrap(exec_runtime').exec_id = exec_start_rx
        /\ Unwrap(exec_runtime').container_id = jobs[exec_start_rx].target
        /\ orphans' = orphans

\* a step in which a worker without receiver ends changes nothing else
StaleEndSilent ==
    orphans' /= orphans /\ BagCardinality(orphans') < BagCardinality(orphans)
        => UNCHANGED <<notifications, exec_runtime, exec_view,
                       exec_start_pending, exec_start_rx, jobs>>

\* C6: a start request for A while a start for A is pending cancels it
\* (pending record and receiver dropped, view closed); the result of the
\* cancelled job is never promoted and produces no notification, also when
\* a new start for A is pending when it arrives: a session is created only
\* from the job of the request being tracked.
C6_CancelledNeverPromoted ==
    /\ []CancelsPending
    /\ [][PromotesTracked /\ StaleEndSilent]_vars

\* a cancelled start job for A has just ended while a newer start for A is
\* pending and its own job still runs
C6_Witness ==
    /\ last.op = "StaleWorkerDone"
    /\ last.from = "exec"
    /\ last.id = "A"
    /\ IsSome(exec_start_pending)
    /\ Unwrap(exec_start_pending).container_id = "A"
    /\ exec_start_rx /= 0
    /\ jobs[exec_start_rx].phase = "running"

\* the viewport of the exec pane for the current terminal size
Viewport == compute_exec_pane_size(terminal_size[1], terminal_size[2])

\* the terminal size changed while the tracked exec start was pending: the
\* size the job was submitted with is no longer the viewport
ResizedWhilePending ==
    /\ IsSome(exec_start_pending)
    /\ exec_start_rx /= 0
    /\ jobs[exec_start_rx].size /= Viewport

\* C9: if the terminal size changed while an exec start was pending, the
\* tick that promotes it to Running (whose resize check runs after the
\* promotion) leaves the session's size and its Virtual Terminal's size at
\* the viewport computed from the current terminal size.
C9_ResizeAppliedAfterPromotion ==
    [][ResizedWhilePending /\ IsSome(exec_runtime') /\ last'.op = "Tick" =>
          /\ Unwrap(exec_runtime').size = Viewport
          /\ Unwrap(exec_runtime').parser.cols = Viewport[1]
          /\ Unwrap(exec_runtime').parser.rows = Viewport[2]]_vars

\* C10: whenever a session is Running at the end of a tick, the size of the
\* local Virtual Terminal equals the session's recorded size and the size
\* last requested of the remote pty.
C10_SizesAgree ==
    last.op = "Tick" /\ IsSome(exec_runtime) =>
        LET runtime == Unwrap(exec_runtime)
        IN  /\ <<runtime.parser.cols, runtime.parser.rows>> = runtime.size
            /\ runtime.size = runtime.pty_size

\* C11: two consecutive resize checks of a Running session with an
\* unchanged terminal size issue at most one remote resize call: after the
\* first check has returned (the remote call succeeded or failed), the
\* second one changes nothing and calls nothing.
C11_ResizeIdempotent ==
    IsSome(exec_runtime) =>
        \A first \in {"ok", "err"}, second \in Outcomes :
            LET r == resize_exec_if_needed(S, first)
            IN  /\ resize_exec_calls(S) + resize_exec_calls(r) <= 1
                /\ resize_exec_calls(r) = 0
                /\ resize_exec_if_needed(r, second) = r

\* a session runs with a client connected and its size is not the viewport:
\* the first of the two checks issues the remote call
C11_Witness ==
    /\ IsSome(exec_runtime)
    /\ docker_client
    /\ last.op = "Resize"
    /\ Unwrap(exec_runtime).size /= Viewport
    /\ resize_exec_calls(S) = 1

\* the chunks among the items of the output channel
ChunksOf(items) == SelectSeq(items, LAMBDA x : x /= End)

RECURSIVE TextOf(_)
\* the chars the chunks among the items print, in order
TextOf(items) ==
    IF items = <<>> THEN <<>>
    ELSE IF Head(items) = End THEN TextOf(Tail(items))
    ELSE printed(from_utf8(Head(items)[2])) \o TextOf(Tail(items))

\* the elements of a sequence
Range(seq) == {seq[i] : i \in DOMAIN seq}

\* the Info notifications "Exec ended" of a queue
ExecEnded(q) ==
    {i \in 1..Len(q) : q[i].message = "Exec ended" /\ q[i].level = "Info"}

\* C12: when the output stream of a Running session has delivered chunks
\* and the poll of a tick drains them, the exposed screen lines include the
\* chunks' text afterwards; when the poll meets the end item, the session
\* is torn down and exactly one Info notification "Exec ended" is added.
\* Both hold when the chunks and the end item are drained by the same poll
\* and when they are drained by different polls.
C12_ChunkThenEnd ==
    IsSome(exec_runtime) /\ IsSome(exec_view) =>
        LET items == Unwrap(exec_runtime).output_rx
            r == check_exec_output(S)
        IN  /\ ChunksOf(items) /= <<>> =>
                  /\ IsSome(r.exec_view)
                  /\ Range(TextOf(items)) \subseteq
                        Range(Unwrap(r.exec_view).screen_lines)
            /\ End \in Range(items) =>
                  /\ IsNone(r.exec_runtime)
                  /\ Cardinality(ExecEnded(r.notifications))
                        = Cardinality(ExecEnded(notifications)) + 1
                  /\ Len(r.notifications) = Len(notifications) + 1
            /\ End \notin Range(items) =>
                  /\ IsSome(r.exec_runtime)
                  /\ r.notifications = notifications

\* the output stream of the Running session has ended or failed
StreamOver ==
    /\ IsSome(exec_runtime)
    /\ Unwrap(exec_runtime).forwarder \in {"ending", "done"}

\* C13: once the output stream of a Running session has ended or yielded an
\* error, the session is eventually torn down (no session handles, no exec
\* view), provided ticks keep occurring; the end item is not lost when the
\* channel is full at that moment.
C13_StreamEndLeadsToTeardown ==
    StreamOver ~> (IsNone(exec_runtime) /\ IsNone(exec_view))

\* the stream has ended while the output channel was full: the forwarder
\* waits in its send of the end item
C13_Witness ==
    /\ StreamOver
    /\ Unwrap(exec_runtime).forwarder = "ending"
    /\ channel_full(Unwrap(exec_runtime))

\* C14: while a session is Running, the chunks the Virtual Terminal has
\* processed followed by the chunks waiting in the channel are the chunks
\* the stream has yielded, in stream order, each once; the channel holds at
\* most its capacity; the end item is in the channel at most once, behind
\* every chunk, and only when the forwarder is over; the poll processes every
\* waiting chunk in order and nothing behind the end item.
C14_OutputInOrder ==
    IsSome(exec_runtime) =>
        LET runtime == Unwrap(exec_runtime)
            items == runtime.output_rx
            d == drain_output(runtime.parser, items, FALSE)
            r == check_exec_output(S)
        IN  /\ ChunksOf(items) \in Seq({Bytes(chunk(i)) :
                                            i \in 1..runtime.yielded})
            /\ runtime.parser.text \o TextOf(items)
                  = [i \in 1..runtime.yielded |-> 48 + i]
            /\ Len(items) <= ChannelCap
            /\ \A i \in 1..Len(items) : items[i] = End => i = Len(items)
            /\ End \in Range(items) <=> runtime.forwarder = "done"
            /\ d.parser.text = [i \in 1..runtime.yielded |-> 48 + i]
            /\ d.rest = <<>>
            /\ d.end <=> End \in Range(items)
            /\ IF d.end THEN IsNone(r.exec_runtime)
               ELSE /\ IsSome(r.exec_runtime)
                    /\ Unwrap(r.exec_runtime).parser = d.parser
                    /\ Unwrap(r.exec_runtime).output_rx = <<>>

\* a chunk has been processed by an earlier poll, a later chunk and the end
\* item wait in the channel
C14_Witness ==
    /\ IsSome(exec_runtime)
    /\ Unwrap(exec_runtime).parser.text /= <<>>
    /\ ChunksOf(Unwrap(exec_runtime).output_rx) /= <<>>
    /\ End \in Range(Unwrap(exec_runtime).output_rx)

\* a failed write to the Running session adds one Error notification and
\* changes nothing else
WriteFailureOnlyNotifies ==
    IsSome(exec_runtime) =>
        LET r == write_exec_input(S, <<97>>, "err")
        IN  /\ r.notifications =
                  Append(notifications,
                         Notification("Exec input failed", "Error"))
            /\ r = [S EXCEPT !.notifications = r.notifications]

\* a step that ends the session is a tick whose poll meets the end item or
\* a start request for the session's own container
EndsByEndItemOrClose ==
    IsSome(exec_runtime) /\ IsNone(exec_runtime') =>
        \/ /\ last'.op = "Tick"
           /\ End \in Range(Unwrap(exec_runtime).output_rx)
        \/ /\ last'.op = "ExecContainer"
           /\ last'.id = Unwrap(exec_runtime).container_id

\* C15: a failed write of input bytes to a Running session adds exactly
\* one Error notification and changes nothing else: session handles, exec
\* view and Virtual Terminal stay.  A session ends only in a tick whose poll
\* meets the end item of the output stream or by a start request for the
\* session's own container (the close).
C15_WriteFailureKeepsSession ==
    /\ []WriteFailureOnlyNotifies
    /\ [][EndsByEndItemOrClose]_vars

\* a write to the Running session has failed: the notification is queued
\* and the session runs on
C15_Witness ==
    /\ last.op = "ExecInput"
    /\ IsSome(exec_runtime)
    /\ IsSome(exec_view)
    /\ notifications /= <<>>
    /\ notifications[Len(notifications)].message = "Exec input failed"
    /\ notifications[Len(notifications)].level = "Error"

\* the exec start job has sent Failed for the request that is still tracked
FailedStartReady ==
    /\ exec_start_rx /= 0
    /\ jobs[exec_start_rx].phase = "ready"
    /\ ~jobs[exec_start_rx].result.started
    /\ matches_pending(S, jobs[exec_start_rx].result.container_id)

Errors(q) == {i \in 1..Len(q) : q[i].level = "Error"}

\* the result of the tracked log fetch waits in its channel
LogResultReady == log_fetch_rx /= 0 /\ jobs[log_fetch_rx].phase = "ready"

\* the result of the tracked stats fetch waits in its channel
StatsResultReady ==
    stats_fetch_rx /= 0 /\ jobs[stats_fetch_rx].phase = "ready"

\* C17: a log fetch and a stats fetch whose remote call failed or ran into
\* the internal timeout end, at the next poll, with exactly one more Error
\* notification and with the in-flight marker cleared.
C17_FetchFailureReported ==
    /\ LogResultReady /\ jobs[log_fetch_rx].result.failed =>
          LET r == check_log_fetch(S)
          IN  /\ r.log_fetch_rx = 0
              /\ Cardinality(Errors(r.notifications))
                    = Cardinality(Errors(notifications)) + 1
              /\ Len(r.notifications) = Len(notifications) + 1
    /\ StatsResultReady /\ ~jobs[stats_fetch_rx].result.ok =>
          LET r == check_stats_fetch(S)
          IN  /\ r.stats_fetch_rx = 0
              /\ Cardinality(Errors(r.notifications))
                    = Cardinality(Errors(notifications)) + 1
              /\ Len(r.notifications) = Len(notifications) + 1

\* C18: when the tracked log fetch has completed successfully with zero
\* entries, the poll adds the Warning notification "No logs found" and
\* appends no line to the log buffer.
C18_NoLogsFoundWarned ==
    /\ LogResultReady
    /\ ~jobs[log_fetch_rx].result.failed
    /\ jobs[log_fetch_rx].result.entries = <<>>
    => LET r == check_log_fetch(S)
       IN  /\ r.notifications =
                 Append(notifications,
                        Notification("No logs found", "Warning"))
           /\ r.log_view = log_view

\* the stats view shows the highlighted container
StatsOnSelected ==
    /\ IsSome(stats_view)
    /\ IsSome(selected_container)
    /\ Unwrap(stats_view).container_id = Unwrap(selected_container)

\* C19: the follow timers start a fetch only when no fetch of their kind is
\* in flight.  With a log fetch in flight the log timer changes nothing;
\* with a stats fetch in flight for the highlighted container the stats
\* timer changes nothing; and when a timer does start a fetch, it leaves no
\* worker without receiver behind, so the new worker is the only one of its
\* kind that follow mode has outstanding.
C19_FollowOnlyWhenIdle ==
    \A due \in BOOLEAN :
        LET l == log_follow(S, due)
            st == stats_follow(S, due)
        IN  /\ log_fetch_rx /= 0 => l = S
            /\ l /= S =>
                  /\ l.orphans = orphans
                  /\ \A j \in JobIds :
                        l.jobs[j].kind = "logs" => j = l.log_fetch_rx
            /\ StatsOnSelected /\ stats_fetch_rx /= 0 => st = S
            /\ StatsOnSelected /\ st /= S =>
                  /\ st.orphans = orphans
                  /\ \A j \in JobIds :
                        st.jobs[j].kind = "stats" => j = st.stats_fetch_rx

\* a tick is over, the log view follows and its fetch is still in flight:
\* the follow timer of the next tick finds it
C19_Witness ==
    /\ last.op = "Tick"
    /\ IsSome(log_view)
    /\ Unwrap(log_view).follow
    /\ last_log_fetch
    /\ log_fetch_rx /= 0
    /\ jobs[log_fetch_rx].phase = "running"

\* the highlighted container is not the one the stats view shows
StatsOffSelected ==
    /\ IsSome(stats_view)
    /\ IsSome(selected_container)
    /\ Unwrap(stats_view).container_id /= Unwrap(selected_container)

\* the inputs of a tick of the fetch coordinators
FetchTickInputs ==
    { in \in [log_due : BOOLEAN, stats_due : BOOLEAN, refresh_due : BOOLEAN,
              refresh : RefreshInputs(FetchEnv), resize : {"ok"},
              elapsed : FetchEnv.elapsed] :
        /\ docker_client => in.refresh.connect = "ok"
        /\ ~in.refresh_due => in.refresh = AllOk }

\* C20: with a client connected, a tick that finds the highlighted
\* container different from the stats view's container ends with the stats
\* view on the highlighted container and with a running fetch for it as the
\* only stats fetch App holds: a fetch in flight for the old target has been
\* replaced.
C20_StatsRetargeted ==
    LoopReady /\ docker_client /\ StatsOffSelected =>
        \A in \in FetchTickInputs :
            LET r == periodic_tasks(S, in)
                id == Unwrap(selected_container)
            IN  /\ IsSome(r.stats_view)
                /\ Unwrap(r.stats_view).container_id = id
                /\ r.stats_fetch_rx /= 0
                /\ r.jobs[r.stats_fetch_rx] =
                      [kind |-> "stats", target |-> id, phase |-> "running",
                       size |-> <<0, 0>>, result |-> <<>>,
                       skipped |-> FALSE]
                /\ \A j \in JobIds :
                      r.jobs[j].kind = "stats" => j = r.stats_fetch_rx

\* the highlight has moved off the stats view's container while a fetch for
\* that container is in flight
C20_Witness ==
    /\ LoopReady /\ docker_client /\ StatsOffSelected
    /\ stats_fetch_rx /= 0
    /\ jobs[stats_fetch_rx].phase = "running"
    /\ jobs[stats_fetch_rx].target = Unwrap(stats_view).container_id

\* C7: the main loop never waits on a remote call, however the remote
\* service behaves.
C7_LoopNeverAwaitsRemote == awaiting = "none"

\* a failed result waits in the channel of the tracked fetch or exec start
FailedResultReady ==
    \/ /\ log_fetch_rx /= 0
       /\ jobs[log_fetch_rx].phase = "ready"
       /\ ~jobs[log_fetch_rx].result.ok
    \/ /\ stats_fetch_rx /= 0
       /\ jobs[stats_fetch_rx].phase = "ready"
       /\ ~jobs[stats_fetch_rx].result.ok
    \/ /\ exec_start_rx /= 0
       /\ jobs[exec_start_rx].phase = "ready"
       /\ ~jobs[exec_start_rx].result.started

\* the ping or the container list call of the refresh fails
RefreshFails(in) ==
    in.refresh_due /\ (in.refresh.ping = "err" \/ in.refresh.list = "err")

\* C8: every remote-call failure that surfaces during the periodic checks
\* of a tick (a failed log or stats fetch result, a failed exec start, a
\* failed ping or list call of the data refresh) adds an Error notification,
\* and the loop goes on.  The tick is taken with every call returning and
\* no notification expiring.
C8_FailuresBecomeErrors ==
    \A refresh \in RefreshInputs(LoopEnv), due \in BOOLEAN :
        LET in == [log_due |-> FALSE, stats_due |-> FALSE,
                   refresh_due |-> due, refresh |-> refresh,
                   resize |-> "ok", elapsed |-> tick_rate]
            r == periodic_tasks(S, in)
        IN  /\ LoopReady
            /\ refresh.connect = "ok" /\ refresh.rest = "ok"
            /\ refresh.ping /= "hang" /\ refresh.list /= "hang"
            /\ FailedResultReady \/ RefreshFails(in)
            => /\ Cardinality(Errors(r.notifications))
                    > Cardinality(Errors(notifications))
               /\ r.awaiting = "none" /\ ~r.should_quit

\* the queue q2 is the queue q1 with one more notification, of level Info
InfoAppended(q1, q2) ==
    /\ Len(q2) = Len(q1) + 1
    /\ SubSeq(q2, 1, Len(q1)) = q1
    /\ q2[Len(q2)].level = "Info"

\* C29: with a client connected, every start of a fetch, of logs and of
\* stats, for whichever container and whether a fetch is in flight or not,
\* adds one Info notification to the queue.
C29_FetchStartNotifies ==
    docker_client /\ Len(notifications) < NotificationCap =>
        \A id \in FetchEnv.ids :
            /\ InfoAppended(notifications,
                            start_log_streaming(S, id).notifications)
            /\ InfoAppended(notifications,
                            start_stats_streaming(S, id).notifications)

\* the last n elements of a sequence (all of them when it has fewer)
LastN(seq, n) == SubSeq(seq, Len(seq) - Min(n, Len(seq)) + 1, Len(seq))

\* C30: the log buffer of a log view never holds more than max_lines
\* entries; an append to a buffer with room adds the entry at the end, an
\* append to a full buffer drops exactly the oldest entry and adds the new
\* one at the end; the poll that takes a successful fetch result leaves the
\* last max_lines entries of the old buffer followed by the fetched ones,
\* in their order.
C30_LogBufferCapped ==
    IsSome(log_view) =>
        LET lv == Unwrap(log_view)
        IN  /\ Len(lv.logs) <= lv.max_lines
            /\ \A e \in {<<id, 1>> : id \in FetchEnv.ids} :
                  Unwrap(add_log_entry(S, e).log_view).logs =
                      IF Len(lv.logs) >= lv.max_lines
                      THEN Append(Tail(lv.logs), e)
                      ELSE Append(lv.logs, e)
            /\ LogResultReady /\ jobs[log_fetch_rx].result.ok =>
                  Unwrap(check_log_fetch(S).log_view).logs =
                      LastN(lv.logs \o jobs[log_fetch_rx].result.entries,
                            lv.max_lines)

\* the buffer is full, holds entries of two containers, and a fetch result
\* with an entry waits to be appended
C30_Witness ==
    /\ IsSome(log_view)
    /\ Len(Unwrap(log_view).logs) = Unwrap(log_view).max_lines
    /\ Unwrap(log_view).logs[1][1] /= Unwrap(log_view).logs[2][1]
    /\ LogResultReady
    /\ jobs[log_fetch_rx].result.entries /= <<>>

\* encode_key_event has returned for the key event of the call
Encoded == call.fn = "encode_key_event" /\ call.ret /= <<>>

\* C24: for every key event whose code is the char e and whose modifiers
\* include Control (alone or with Shift or Alt), encode_key_event returns
\* None: no bytes.
C24_DetachEncodesToNothing ==
    /\ Encoded
    /\ call.arg.code = "Char" /\ call.arg.ch = 101
    /\ "CONTROL" \in call.arg.modifiers
    => Unwrap(call.ret) = None

\* the encoder has returned for Ctrl+Alt+e
C24_Witness ==
    /\ Encoded
    /\ call.arg = Key("Char", 101, {"CONTROL", "ALT"})

\* the bytes the claim C25 names for a key event that is not Ctrl+char:
\* Enter CR, Backspace DEL, Tab HT, Esc ESC, the arrows ESC [ A/B/C/D, a
\* char without Control its UTF-8 bytes, BackTab, F1 and Null nothing
NamedBytes(key) ==
    CASE key.code = "Enter" -> Some(<<13>>)
      [] key.code = "Backspace" -> Some(<<127>>)
      [] key.code = "Tab" -> Some(<<9>>)
      [] key.code = "Esc" -> Some(<<27>>)
      [] key.code = "Up" -> Some(<<27, 91, 65>>)
      [] key.code = "Down" -> Some(<<27, 91, 66>>)
      [] key.code = "Right" -> Some(<<27, 91, 67>>)
      [] key.code = "Left" -> Some(<<27, 91, 68>>)
      [] key.code = "Char" /\ key.ch = 97 -> Some(<<97>>)
      [] key.code = "Char" /\ key.ch = 99 -> Some(<<99>>)
      [] key.code = "Char" /\ key.ch = 101 -> Some(<<101>>)
      [] key.code = "Char" /\ key.ch = 69 -> Some(<<69>>)
      [] key.code = "Char" /\ key.ch = 49 -> Some(<<49>>)
      [] key.code = "Char" /\ key.ch = 32 -> Some(<<32>>)
      [] key.code = "Char" /\ key.ch = 233 -> Some(<<195, 169>>)
      [] key.code = "Char" /\ key.ch = 8364 -> Some(<<226, 130, 172>>)
      [] key.code = "Char" /\ key.ch = 128512 ->
            Some(<<240, 159, 152, 128>>)
      [] OTHER -> None

\* the key codes the claim C25 speaks of
NamedCodes == {"Enter", "Backspace", "Tab", "Esc", "Up", "Down", "Right",
               "Left", "Char", "BackTab", "F1", "Null"}

\* the letters among the chars of KeyEvents with their control codes (letter AND 0x1F):
\* a 1, c 3, e 5, E 5
ControlCode(ch) ==
    CASE ch = 97 -> 1 [] ch = 99 -> 3 [] ch = 101 -> 5 [] ch = 69 -> 5

Letters == {97, 99, 101, 69}

\* C25 as stated: Ctrl+letter gives the letter's control code, for every
\* letter
C25_EncoderTable ==
    Encoded /\ call.arg.code \in NamedCodes =>
        LET key == call.arg
            bytes == Unwrap(call.ret)
        IN  IF key.code = "Char" /\ "CONTROL" \in key.modifiers
            THEN key.ch \in Letters => bytes = Some(<<ControlCode(key.ch)>>)
            ELSE bytes = NamedBytes(key)

\* C25, amended: the table of C25_EncoderTable, but Ctrl+e (the reserved
\* combination) gives nothing.
C25_EncoderTableButReserved ==
    Encoded /\ call.arg.code \in NamedCodes =>
        LET key == call.arg
            bytes == Unwrap(call.ret)
        IN  IF key.code = "Char" /\ "CONTROL" \in key.modifiers
            THEN /\ key.ch \in Letters \ {101} =>
                       bytes = Some(<<ControlCode(key.ch)>>)
                 /\ key.ch = 101 => bytes = None
            ELSE bytes = NamedBytes(key)

\* the encoder has returned for Ctrl+c
C25_Witness ==
    /\ Encoded
    /\ call.arg = Key("Char", 99, {"CONTROL"})
    /\ Unwrap(call.ret) = Some(<<3>>)

\* select_exec_command has returned for the arrays of the call
Selected == call.fn = "select_exec_command" /\ call.ret /= <<>>

\* an array that looks like an interactive shell, in the words of C27: the
\* basename of its first token is a shell name, or one of its tokens is -c
\* or -lc
ShellLike(arr) ==
    /\ arr /= <<>>
    /\ \/ arr[1][Len(arr[1])] \in {"sh", "bash", "zsh", "ash", "dash"}
       \/ \E i \in 1..Len(arr) : arr[i] \in {<<"-c">>, <<"-lc">>}

\* the fixed fallback ["/bin/sh", "-lc"]
Fallback == << <<"", "bin", "sh">>, <<"-lc">> >>

\* the two scenarios of C27
SelectorScenarios ==
    /\ select_exec_command(<< <<"", "bin", "bash">> >>, <<>>)
          = << <<"", "bin", "bash">>, <<"-i">> >>
    /\ select_exec_command(<< <<"", "usr", "bin", "myserver">> >>,
                           << <<"--port">>, <<"8080">> >>)
          = Fallback

\* C27 as stated: when the entrypoint or the cmd looks like a shell, the
\* result is the entrypoint followed by the cmd, with -i appended whenever
\* that is a single token (a command without arguments); otherwise it is the
\* fallback; it is never empty.
C27_SelectorAsStated ==
    Selected =>
        LET both == call.arg.entrypoint \o call.arg.cmd
            out == Unwrap(call.ret)
        IN  /\ IF ShellLike(call.arg.entrypoint) \/ ShellLike(call.arg.cmd)
               THEN out = IF Len(both) = 1
                          THEN Append(both, <<"-i">>) ELSE both
               ELSE out = Fallback
            /\ out /= <<>>
            /\ SelectorScenarios

\* C27, amended: -i is appended when the entrypoint followed by the cmd is
\* a single token other than -c and -lc.
C27_SelectorButRunFlag ==
    Selected =>
        LET both == call.arg.entrypoint \o call.arg.cmd
            out == Unwrap(call.ret)
        IN  /\ IF ShellLike(call.arg.entrypoint) \/ ShellLike(call.arg.cmd)
               THEN out = IF /\ Len(both) = 1
                             /\ both[1] \notin {<<"-c">>, <<"-lc">>}
                          THEN Append(both, <<"-i">>) ELSE both
               ELSE out = Fallback
            /\ out /= <<>>
            /\ SelectorScenarios

\* the selector has returned ["/bin/bash", "-i"] for (["/bin/bash"], [])
C27_Witness ==
    /\ Selected
    /\ call.arg = [entrypoint |-> << <<"", "bin", "bash">> >>, cmd |-> <<>>]
    /\ Unwrap(call.ret) = << <<"", "bin", "bash">>, <<"-i">> >>

\* Ctrl+C, pressed
CtrlC == Key("Char", 99, {"CONTROL"})

\* C28: in every state of the UI, the help overlay or a confirmation dialog
\* showing included, handling a pressed Ctrl+C sets the quit flag and returns
\* the Quit action.
C28_CtrlCQuitsEverywhere ==
    LoopReady =>
        \A cstate \in {"Running", "Paused", "Exited"},
           image \in {None, Some("I")} :
            LET r == handle_key_event(S, CtrlC, cstate, image)
            IN  r.should_quit /\ r.action = UiAction("Quit", "")

\* what the main loop alone writes: everything but the workers' jobs, their
\* orphaned results and the record of the last operation
loopvars == <<docker_client, log_fetch_rx, last_log_fetch, stats_fetch_rx,
              last_stats_fetch, exec_runtime, exec_start_rx,
              exec_start_pending, last_terminal_size, docker_connected,
              containers, container_list_selected, selected_container,
              terminal_size, notifications, log_view, stats_view, exec_view,
              current_tab, show_help, confirm_dialog, awaiting, should_quit,
              overflow, call>>

\* C21: once a quit action has been handled the quit flag is set and the
\* loop makes no further iteration: no operation of the loop (an iteration
\* starts with the render, then handles input, then runs the periodic
\* tasks) occurs any more and nothing the loop writes changes; only workers
\* still end.
C21_NothingAfterQuit ==
    [][(should_quit \/ last.op = "Quit") =>
          /\ should_quit'
          /\ UNCHANGED loopvars
          /\ last' = last \/ last'.op = "StaleWorkerDone"]_vars

\* a quit key has been handled while a log worker is still running
C21_Witness ==
    /\ should_quit
    /\ last.op = "Quit"
    /\ \E j \in JobIds : jobs[j].phase = "running"
\* the place in the queue q of the n-th message added (0: not queued)
Queued(q, n) ==
    IF \E i \in 1..Len(q) : q[i].message = ToString(n)
    THEN CHOOSE i \in 1..Len(q) : q[i].message = ToString(n)
    ELSE 0

\* C22: the notification queue never holds more than 10 entries, its
\* entries are in the order they were added in, adding to a full queue
\* yields the 9 most recent entries followed by the new one, adding to a
\* queue with room yields the queue followed by the new one.
C22_QueueBoundedFifo ==
    /\ Len(notifications) <= 10
    /\ \A m, n \in 1..MaxAdds :
          /\ m < n
          /\ Queued(notifications, m) > 0
          /\ Queued(notifications, n) > 0
          => Queued(notifications, m) < Queued(notifications, n)
    /\ \A level \in {"Info", "Success", "Warning", "Error"} :
          LET r == add_notification(S, "new", level).notifications
              new == [message |-> "new", level |-> level, age |-> 0]
          IN  IF Len(notifications) = 10
              THEN r = SubSeq(notifications, 2, 10) \o <<new>>
              ELSE r = notifications \o <<new>>

\* the eleventh or a later message was added to a full queue: the queue
\* holds the ten most recent messages
C22_Witness ==
    /\ last.op = "AddNotification"
    /\ call.arg > 10
    /\ Len(notifications) = 10
    /\ \A i \in 1..10 : Queued(notifications, call.arg - 10 + i) = i

\* the entries of q that are younger than 3 s, in their order
Younger(q) == SelectSeq(q, LAMBDA n : n.age < 3000)

\* C23: the expiry step, whatever time has passed, leaves exactly the
\* notifications younger than 3 s, in their order; a tick that ran to its
\* end leaves no notification of 3 s or more; and with ticks that keep
\* occurring every notification added is eventually removed from the queue.
C23_ExpiryExactAndEventual ==
    /\ [](\A dt \in {0, 250, 1000, 2000, 3000} :
            clear_old_notifications(elapse(S, dt), 3).notifications
                = Younger(elapse(S, dt).notifications))
    /\ [](last.op = "Tick" /\ awaiting = "none"
            => notifications = Younger(notifications))
    /\ \A n \in 1..MaxAdds :
          (Queued(notifications, n) > 0) ~> (Queued(notifications, n) = 0)

\* a tick removed the first message for its age and kept the younger second
\* one (the queue was never full, so nothing was evicted)
C23_Witness ==
    /\ last.op = "Tick"
    /\ call.arg <= 10
    /\ Queued(notifications, 1) = 0
    /\ Queued(notifications, 2) > 0
    /\ notifications[Queued(notifications, 2)].age > 0
\* chars that print, with UTF-8 encodings of one, two, three and four bytes
Printable == {97, 69, 49, 32, 233, 8364, 128512}

C35_PaneSizeInRange ==
    (call.fn = "compute_exec_pane_size" /\ call.ret # <<>>) =>
        /\ list_width_product(call.arg[1]) < U16
        /\ ~Unwrap(call.ret).panic
        /\ Unwrap(call.ret).size[1] >= 1
        /\ Unwrap(call.ret).size[2] \in 1..(EXEC_PANEL_HEIGHT - 2)

(***************************************************************************)
(* The bottom panels.                                                      *)
(***************************************************************************)
\* C34: the stats panel and the exec panel are never open at the same time
C34_PanelsNotStacked == ~(IsSome(stats_view) /\ IsSome(exec_view))

C39_SelectionInList ==
    LET n == Len(containers)
        sel == container_list_selected
    IN  /\ n = 0 => sel = 0 /\ selected_container = None
        /\ n > 0 => /\ sel \in 0..(n - 1)
                    /\ selected_container = Some(containers[sel + 1])
                    /\ next_container(S).container_list_selected =
                          (IF sel = n - 1 THEN 0 ELSE sel + 1)
                    /\ previous_container(S).container_list_selected =
                          (IF sel = 0 THEN n - 1 ELSE sel - 1)
        /\ previous_container(next_container(S)) = S
        /\ next_container(previous_container(S)) = S

\* a key has moved the highlight to the last of three containers
C39_Witness ==
    /\ Len(containers) = 3
    /\ container_list_selected = 2
    /\ last.op = "Key"

(***************************************************************************)
(* The exec view and the exec session.                                     *)
(***************************************************************************)
\* the exec view is open and names container id
ExecViewNames(s, id) ==
    IF IsSome(s.exec_view) THEN Unwrap(s.exec_view).container_id = id
    ELSE FALSE

\* no exec view, no session and no pending start
ExecGone(s) ==
    /\ IsNone(s.exec_view)
    /\ IsNone(s.exec_runtime)
    /\ IsNone(s.exec_start_pending)

\* C37: while a session is Running or a start is pending for a container,
\* the exec view is open and names that container; after a toggle-close, a
\* cancel or a stream-end teardown the view is closed and neither a session
\* nor a pending start remains
C37_ViewTracksSession ==
    /\ IsSome(exec_runtime) =>
          /\ ExecViewNames(S, Unwrap(exec_runtime).container_id)
          /\ ExecGone(start_exec_for_container(
                          S, Unwrap(exec_runtime).container_id))
          /\ IsNone(check_exec_output(S).exec_runtime) =>
                ExecGone(check_exec_output(S))
    /\ IsSome(exec_start_pending) =>
          /\ ExecViewNames(S, Unwrap(exec_start_pending).container_id)
          /\ ExecGone(start_exec_for_container(
                          S, Unwrap(exec_start_pending).container_id))
    /\ last.op = "ExecContainer" /\ last.from /= "Idle"
          /\ IsNone(exec_view) => ExecGone(S)
    /\ last.op = "Tick" /\ IsNone(exec_view) => ExecGone(S)

\* a tick has promoted the start for container B: the session is Running,
\* its stream has ended and the next poll will tear it down
C37_Witness ==
    /\ last.op = "Tick"
    /\ IsSome(exec_runtime)
    /\ ExecViewNames(S, "B")
    /\ IsNone(check_exec_output(S).exec_runtime)

(***************************************************************************)
(* The spinner of a pending exec start.                                    *)
(***************************************************************************)
\* the status text of the exec view of state s
StatusOf(s) == Unwrap(s.exec_view).status

\* the frame shown for a spinner index
FrameAt(index) == <<"|", "/", "-", "\\">>[index + 1]

\* with a start pending, the tick's poll of the start followed by its
\* spinner step: when the start stays pending the index goes one step
\* through the cycle and the status is "Starting" with a frame; when the
\* poll has taken the result the spinner step changes nothing
SpinnerAfterPoll ==
    IsSome(exec_start_pending) =>
        LET index == Unwrap(exec_start_pending).spinner_index
            polled == check_exec_start(S)
            ticked == tick_exec_spinner(polled)
        IN  /\ index \in 0..3
            /\ IsSome(polled.exec_start_pending) =>
                  /\ Unwrap(ticked.exec_start_pending).spinner_index =
                        (IF index = 3 THEN 0 ELSE index + 1)
                  /\ StatusOf(ticked) = <<"Starting", FrameAt(index)>>
            /\ IsNone(polled.exec_start_pending) =>
                  /\ ticked = polled
                  /\ IsSome(polled.exec_runtime) =>
                        StatusOf(ticked) = <<"Running">>
                  /\ IsNone(polled.exec_runtime) =>
                        StatusOf(ticked)[1] = "Failed"

\* C32: a tick during which the exec start stays pending advances the
\* spinner index by one through the cycle 0, 1, 2, 3, 0 and sets the status
\* text to "Starting" with the frame of the index; a tick in which the start
\* completes or fails leaves the status at "Running" or "Failed: ..."
C32_SpinnerSteps ==
    /\ []SpinnerAfterPoll
    /\ [][(/\ last'.op = "Tick"
           /\ IsSome(exec_start_pending)
           /\ exec_start_pending' /= exec_start_pending)
          => LET index == Unwrap(exec_start_pending).spinner_index
             IN  /\ IsSome(exec_start_pending') =>
                       /\ Unwrap(exec_start_pending').spinner_index =
                             (IF index = 3 THEN 0 ELSE index + 1)
                       /\ StatusOf(S)' = <<"Starting", FrameAt(index)>>
                 /\ IsNone(exec_start_pending') /\ IsSome(exec_runtime') =>
                       StatusOf(S)' = <<"Running">>
                 /\ IsNone(exec_start_pending') /\ IsNone(exec_runtime') =>
                       StatusOf(S)'[1] = "Failed"]_vars

\* the spinner has gone through the whole cycle: a tick has brought the
\* index of the pending start back to 0
C32_Witness ==
    /\ last.op = "Tick"
    /\ IsSome(exec_start_pending)
    /\ Unwrap(exec_start_pending).spinner_index = 0
    /\ Unwrap(exec_view).status = <<"Starting", "\\">>

(***************************************************************************)
(* The confirmation dialog.                                                *)
(***************************************************************************)
\* the actions that are asked about before they run
Destructive ==
    {"KillContainer", "RemoveContainer", "RemoveImage", "PruneImages"}

\* the keys of the UI and of the dialog specification, Ctrl+d and Tab
DialogKeys ==
    UiEnv.keys \cup DialogEnv.keys
    \cup {Key("Char", 100, {"CONTROL"}), Key("Tab", 0, {})}

\* C33: kill container, remove container, remove image and prune images
\* are returned by handle_key_event only for y or Enter pressed while the
\* dialog holds that very action, and the dialog is then closed; n or Esc
\* closes the dialog and returns no action; any other key with the dialog
\* open changes nothing and returns no action
C33_DestructiveOnlyConfirmed ==
    /\ IsSome(confirm_dialog) => Unwrap(confirm_dialog).kind \in Destructive
    /\ \A key \in DialogKeys, cstate \in {"Running", "Paused", "Exited"},
          image \in {None, Some("I")} :
          LET r == handle_key_event(S, key, cstate, image)
              yes == IsChar(key, 121) \/ key.code = "Enter"
              no == IsChar(key, 110) \/ key.code = "Esc"
          IN  /\ r.action.kind \in Destructive =>
                    /\ key.kind = "Press" /\ yes
                    /\ confirm_dialog = Some(r.action)
                    /\ r.state = [S EXCEPT !.confirm_dialog = None]
              /\ IsSome(confirm_dialog) /\ key.kind = "Press" /\ yes =>
                    r.action = Unwrap(confirm_dialog)
              /\ IsSome(confirm_dialog) /\ key.kind = "Press" /\ no =>
                    /\ r.action = UiAction("None", "")
                    /\ r.state = [S EXCEPT !.confirm_dialog = None]
              /\ IsSome(confirm_dialog)
                    /\ (key.kind /= "Press" \/ (~yes /\ ~no)) =>
                    /\ r.action = UiAction("None", "")
                    /\ r.state = S
                    /\ ~r.should_quit

\* the removal of the highlighted image was asked about, confirmed and run
C33_Witness ==
    /\ last.op = "Key"
    /\ IsNone(confirm_dialog)
    /\ current_tab = "Images"
    /\ notifications /= <<>>
    /\ notifications[Len(notifications)].message = "Image removed"

(***************************************************************************)
(* The log buffer in follow mode.                                          *)
(***************************************************************************)
\* C31: no log line is in the buffer of the log view twice: the fetches of
\* follow mode append only lines that were not delivered before
C31_NoLineTwice ==
    IsSome(log_view) =>
        \A i, j \in 1..Len(Unwrap(log_view).logs) :
            Unwrap(log_view).logs[i] = Unwrap(log_view).logs[j] => i = j

(***************************************************************************)
(* Log fetches in follow mode do not get stuck.                            *)
(***************************************************************************)
\* a log fetch is tracked and the view follows
FollowFetchInFlight ==
    /\ log_fetch_rx /= 0
    /\ IsSome(log_view)
    /\ Unwrap(log_view).follow

\* a tick takes what the tracked log fetch has left in its channel (a
\* result, or the closed channel) and clears the marker
TakesLogResult ==
    /\ log_fetch_rx /= 0
    /\ jobs[log_fetch_rx].phase \in {"ready", "closed"}
    /\ last'.op = "Tick"
    /\ jobs'[log_fetch_rx] /= jobs[log_fetch_rx]

\* a tick of the follow timer starts a log fetch
StartsFollowFetch ==
    /\ last'.op = "Tick"
    /\ log_fetch_rx' /= 0
    /\ jobs'[log_fetch_rx'].phase = "running"
    /\ jobs'[log_fetch_rx'] /= jobs[log_fetch_rx']

\* C36: while the log view follows and the client is connected, a log
\* fetch in flight is eventually taken by a tick, which clears the marker,
\* and a new fetch is eventually started, whatever the log stream yields
C36_FollowNeverStuck ==
    /\ []<>(~FollowFetchInFlight) \/ []<><<TakesLogResult>>_vars
    /\ []<>(~FollowFetchInFlight) \/ []<><<StartsFollowFetch>>_vars

(***************************************************************************)
(* The search of the log view.                                             *)
(***************************************************************************)
\* C40: current_match is present only when search_matches is not empty and
\* is an index into it, and every index in search_matches is a position in
\* the log buffer
C40_SearchIndicesValid ==
    IsSome(log_view) =>
        LET lv == Unwrap(log_view)
        IN  /\ IsSome(lv.current_match) =>
                  /\ lv.search_matches /= <<>>
                  /\ Unwrap(lv.current_match)
                        \in 0..(Len(lv.search_matches) - 1)
            /\ \A i \in 1..Len(lv.search_matches) :
                  lv.search_matches[i] \in 0..(Len(lv.logs) - 1)

====
